---- MODULE Spec2Model ----
(***************************************************************************)
(* Verification model of htiek/FormalLanguages:                            *)
(*   - the parser generator core (Parser Generator/src/ParserGenerator.cpp)*)
(*   - the CFG obfuscation pipeline (Formal Languages/src/Main.cpp)        *)
(*   - the CFG JSON codec (Main.cpp toJSON, CFGParser.cpp parseCFG)        *)
(*   - the CFG text parser (CFGParser.cpp) and seemEquivalent (Main.cpp)   *)
(***************************************************************************)
EXTENDS Integers, Sequences, FiniteSets, TLC

(***************************************************************************)
(* Symbols of the parser generator are C++ std::string values.  The sets   *)
(* and maps of the generator are ordered containers, so the byte-wise      *)
(* order of the names decides iteration order.  SymOrder lists every name  *)
(* the model uses in std::string order.                                    *)
(***************************************************************************)
kStartSymbol == "_parserInternalStart"

SCAN_EOF == "SCAN_EOF"

SymOrder ==
  << "(", ")", "*", "+", "A", "B", "E", "S", "SCAN_EOF", "_parserInternalStart",
     "a", "b", "c", "id" >>

Ord(s) == CHOOSE k \in 1..Len(SymOrder) : SymOrder[k] = s

\* std::string operator< on the names of the model
StrLess(a, b) == Ord(a) < Ord(b)

\* std::vector<std::string> operator< : lexicographic
VecLess(a, b) ==
  \E k \in 1..(Len(a) + 1) :
     /\ k <= Len(b)
     /\ \A j \in 1..(k - 1) : a[j] = b[j]
     /\ (k = Len(a) + 1 \/ StrLess(a[k], b[k]))

\* A Production (an LR(0) item): nonterminal, items, index (dot position, 0-based)
Item(n, its, ix) == [nonterminal |-> n, items |-> its, index |-> ix]

\* operator< (const Production&, const Production&)
ProdLess(lhs, rhs) ==
  IF lhs.nonterminal # rhs.nonterminal THEN StrLess(lhs.nonterminal, rhs.nonterminal)
  ELSE IF lhs.items # rhs.items THEN VecLess(lhs.items, rhs.items)
  ELSE lhs.index < rhs.index

\* iteration order of a std::set<Production>
RECURSIVE SortProds(_)
SortProds(S) ==
  IF S = {} THEN << >>
  ELSE LET m == CHOOSE x \in S : \A y \in S \ {x} : ProdLess(x, y)
       IN  <<m>> \o SortProds(S \ {m})

\* iteration order of a std::set<std::string> / the keys of a std::map<std::string, T>
RECURSIVE SortStrs(_)
SortStrs(S) ==
  IF S = {} THEN << >>
  ELSE LET m == CHOOSE x \in S : \A y \in S \ {x} : StrLess(x, y)
       IN  <<m>> \o SortStrs(S \ {m})

\* std::map operator[] read: a missing key reads as the empty set
Get(m, k) == IF k \in DOMAIN m THEN m[k] ELSE {}

\* std::map operator[] write
Put(m, k, v) == [x \in (DOMAIN m) \cup {k} |-> IF x = k THEN v ELSE m[x]]

EmptyMap == [x \in {} |-> {}]

Range(s) == {s[k] : k \in DOMAIN s}

(***************************************************************************)
(* Grammar: g.grammar maps a nonterminal to its vector of ProductionRule   *)
(* (terms only; the semantic-action text plays no part in the tables),     *)
(* g.priorities is the priority list.                                      *)
(***************************************************************************)
isNonterminal(g, symbol) == symbol \in DOMAIN g.grammar

RECURSIVE closureRec(_, _, _)
RECURSIVE closureRules(_, _, _, _, _)

\* the loop of closureRec over g.grammar.at(symbol)
closureRules(g, symbol, rules, k, result) ==
  IF k > Len(rules) THEN result
  ELSE closureRules(g, symbol, rules, k + 1,
                    closureRec(g, Item(symbol, rules[k].terms, 0), result))

closureRec(g, production, result) ==
  IF production \in result THEN result
  ELSE LET added == result \cup {production}
       IN  IF production.index = Len(production.items) THEN added
           ELSE LET symbol == production.items[production.index + 1]
                IN  IF ~isNonterminal(g, symbol) THEN added
                    ELSE closureRules(g, symbol, g.grammar[symbol], 1, added)

closureOf(g, production) == closureRec(g, production, {})

\* the items of a set whose dot stands right before symbol
DotBefore(productions, symbol) ==
  {p \in productions : p.index # Len(p.items) /\ p.items[p.index + 1] = symbol}

\* mutant of successorsOf: the advanced items without their closure
successorsOfKernels(g, productions) ==
  [symbol \in {p.items[p.index + 1] : p \in {q \in productions : q.index # Len(q.items)}} |->
     {Item(t.nonterminal, t.items, t.index + 1) : t \in DotBefore(productions, symbol)}]

successorsOf(g, productions) ==
  [symbol \in {p.items[p.index + 1] : p \in {q \in productions : q.index # Len(q.items)}} |->
     UNION {closureOf(g, Item(t.nonterminal, t.items, t.index + 1)) :
              t \in DotBefore(productions, symbol)}]

\* position of symbol in g.priorities (0-based), Len if absent: std::find
FindIn(seq, symbol) ==
  IF symbol \in Range(seq)
  THEN (CHOOSE k \in 1..Len(seq) : seq[k] = symbol /\ \A j \in 1..(k - 1) : seq[j] # symbol) - 1
  ELSE Len(seq)

\* mutant of priorityOf: the priority list is ignored
priorityOfUnranked(g, production) == Len(g.priorities)

priorityOf(g, production) ==
  LET ranked == {k \in 1..Len(production.items) :
                   /\ ~isNonterminal(g, production.items[k])
                   /\ production.items[k] \in Range(g.priorities)}
  IN  IF ranked = {} THEN Len(g.priorities)
      ELSE FindIn(g.priorities, production.items[CHOOSE k \in ranked : \A j \in ranked : k <= j])

reductionsIn(s) == {prod \in s : prod.index = Len(prod.items) /\ prod.nonterminal # kStartSymbol}

haltsIn(s) == {prod \in s : prod.index = Len(prod.items) /\ prod.nonterminal = kStartSymbol}

shiftsIn(s) == {prod \in s : prod.index # Len(prod.items)}

(***************************************************************************)
(* nullables, firstSets, followSets: the fixed-point loops, pass by pass,  *)
(* updating the result in place in the iteration order of the code.        *)
(***************************************************************************)
\* mutant of nullablesProds: only an empty production makes a nonterminal nullable
RECURSIVE nullablesProdsDirect(_, _, _, _)
nullablesProdsDirect(nonterminal, prods, k, result) ==
  IF k > Len(prods) THEN result
  ELSE nullablesProdsDirect(nonterminal, prods, k + 1,
         IF prods[k].terms = << >> THEN result \cup {nonterminal} ELSE result)

RECURSIVE nullablesProds(_, _, _, _)
nullablesProds(nonterminal, prods, k, result) ==
  IF k > Len(prods) THEN result
  ELSE nullablesProds(nonterminal, prods, k + 1,
         IF \A t \in Range(prods[k].terms) : t \in result
         THEN result \cup {nonterminal} ELSE result)

RECURSIVE nullablesPass(_, _, _, _)
nullablesPass(g, keys, k, result) ==
  IF k > Len(keys) THEN result
  ELSE nullablesPass(g, keys, k + 1, nullablesProds(keys[k], g.grammar[keys[k]], 1, result))

RECURSIVE nullablesLoop(_, _)
nullablesLoop(g, result) ==
  LET next == nullablesPass(g, SortStrs(DOMAIN g.grammar), 1, result)
  IN  IF next # result THEN nullablesLoop(g, next) ELSE next

nullables(g) == nullablesLoop(g, {})

\* result[k] for reading: creates the entry
Touch(st, k) == [st EXCEPT !.m = Put(st.m, k, Get(st.m, k))]

\* changed |= (insert of the elements of S into result[k] grew it)
AddTo(st, k, S) ==
  [st EXCEPT !.m = Put(st.m, k, Get(st.m, k) \cup S),
             !.changed = st.changed \/ ~(S \subseteq Get(st.m, k))]

\* mutant of firstScan: the scan stops at the first term, nullable or not
firstScanStops(g, nullable, nonterminal, terms, k, st) ==
  IF k > Len(terms) THEN st
  ELSE IF isNonterminal(g, terms[k])
       THEN AddTo(Touch(st, terms[k]), nonterminal, Get(st.m, terms[k]))
       ELSE AddTo(st, nonterminal, {terms[k]})

\* the scan of one production's terms in firstSets
RECURSIVE firstScan(_, _, _, _, _, _)
firstScan(g, nullable, nonterminal, terms, k, st) ==
  IF k > Len(terms) THEN st
  ELSE IF isNonterminal(g, terms[k])
       THEN LET t1 == Touch(st, terms[k])
                t2 == AddTo(t1, nonterminal, Get(t1.m, terms[k]))
            IN  IF terms[k] \notin nullable THEN t2
                ELSE firstScan(g, nullable, nonterminal, terms, k + 1, t2)
       ELSE AddTo(st, nonterminal, {terms[k]})

RECURSIVE firstProds(_, _, _, _, _, _)
firstProds(g, nullable, nonterminal, prods, k, st) ==
  IF k > Len(prods) THEN st
  ELSE firstProds(g, nullable, nonterminal, prods, k + 1,
                  firstScan(g, nullable, nonterminal, prods[k].terms, 1, st))

RECURSIVE firstPass(_, _, _, _, _)
firstPass(g, nullable, keys, k, st) ==
  IF k > Len(keys) THEN st
  ELSE firstPass(g, nullable, keys, k + 1,
                 firstProds(g, nullable, keys[k], g.grammar[keys[k]], 1, st))

RECURSIVE firstLoop(_, _, _)
firstLoop(g, nullable, m) ==
  LET st == firstPass(g, nullable, SortStrs(DOMAIN g.grammar), 1, [m |-> m, changed |-> FALSE])
  IN  IF st.changed THEN firstLoop(g, nullable, st.m) ELSE st.m

firstSets(g) == firstLoop(g, nullables(g), EmptyMap)

\* mutant of followScan: the scan stops at the first term behind position i
followScanStops(g, firsts, nullable, terms, i, j, st) ==
  IF j > Len(terms) THEN [st |-> st, toEnd |-> TRUE]
  ELSE IF ~isNonterminal(g, terms[j])
       THEN [st |-> AddTo(st, terms[i], {terms[j]}), toEnd |-> FALSE]
       ELSE [st |-> AddTo(st, terms[i], Get(firsts, terms[j])), toEnd |-> FALSE]

\* the inner scan j = i+1.. of followSets; toEnd is nullableToEnd
RECURSIVE followScan(_, _, _, _, _, _, _)
followScan(g, firsts, nullable, terms, i, j, st) ==
  IF j > Len(terms) THEN [st |-> st, toEnd |-> TRUE]
  ELSE IF ~isNonterminal(g, terms[j])
       THEN [st |-> AddTo(st, terms[i], {terms[j]}), toEnd |-> FALSE]
       ELSE LET t1 == AddTo(st, terms[i], Get(firsts, terms[j]))
            IN  IF terms[j] \notin nullable THEN [st |-> t1, toEnd |-> FALSE]
                ELSE followScan(g, firsts, nullable, terms, i, j + 1, t1)

\* mutant of followTerms: rule 2 is left out
RECURSIVE followTermsNoRule2(_, _, _, _, _, _, _)
followTermsNoRule2(g, firsts, nullable, nonterminal, terms, i, st) ==
  IF i > Len(terms) THEN st
  ELSE IF ~isNonterminal(g, terms[i])
       THEN followTermsNoRule2(g, firsts, nullable, nonterminal, terms, i + 1, st)
       ELSE LET sc == followScan(g, firsts, nullable, terms, i, i + 1, st)
            IN  followTermsNoRule2(g, firsts, nullable, nonterminal, terms, i + 1, sc.st)

\* the loop over the positions i of one production in followSets
RECURSIVE followTerms(_, _, _, _, _, _, _)
followTerms(g, firsts, nullable, nonterminal, terms, i, st) ==
  IF i > Len(terms) THEN st
  ELSE IF ~isNonterminal(g, terms[i])
       THEN followTerms(g, firsts, nullable, nonterminal, terms, i + 1, st)
       ELSE LET sc == followScan(g, firsts, nullable, terms, i, i + 1, st)
                t1 == IF sc.toEnd
                      THEN LET t0 == Touch(sc.st, nonterminal)
                           IN  AddTo(t0, terms[i], Get(t0.m, nonterminal))
                      ELSE sc.st
            IN  followTerms(g, firsts, nullable, nonterminal, terms, i + 1, t1)

RECURSIVE followProds(_, _, _, _, _, _, _)
followProds(g, firsts, nullable, nonterminal, prods, k, st) ==
  IF k > Len(prods) THEN st
  ELSE followProds(g, firsts, nullable, nonterminal, prods, k + 1,
                   followTerms(g, firsts, nullable, nonterminal, prods[k].terms, 1, st))

RECURSIVE followPass(_, _, _, _, _, _)
followPass(g, firsts, nullable, keys, k, st) ==
  IF k > Len(keys) THEN st
  ELSE followPass(g, firsts, nullable, keys, k + 1,
                  followProds(g, firsts, nullable, keys[k], g.grammar[keys[k]], 1, st))

RECURSIVE followLoop(_, _, _, _)
followLoop(g, firsts, nullable, m) ==
  LET rule1 == AddTo([m |-> m, changed |-> FALSE], kStartSymbol, {SCAN_EOF})
      st    == followPass(g, firsts, nullable, SortStrs(DOMAIN g.grammar), 1, rule1)
  IN  IF st.changed THEN followLoop(g, firsts, nullable, st.m) ELSE st.m

\* mutant of followSets: no lookahead, every nonterminal is followed by every symbol
followSetsNoLookahead(g) ==
  [n \in DOMAIN g.grammar |->
     {SCAN_EOF} \cup
     UNION {UNION {Range(r.terms) \ DOMAIN g.grammar : r \in Range(g.grammar[m])} :
              m \in DOMAIN g.grammar}]

followSets(g) == followLoop(g, firstSets(g), nullables(g), EmptyMap)

\* reduceActionFor: "new ReduceActionN<arity>(Nonterminal::nt, reduce_nt_from_items__thunk)"
reduceActionFor(p) ==
  [type |-> "ReduceN", nonterminal |-> p.nonterminal, arity |-> Len(p.items),
   thunk |-> p.items, target |-> 0]

\* "new HaltAction()"
HaltAction == [type |-> "Halt", nonterminal |-> "", arity |-> 0, thunk |-> << >>, target |-> 0]

\* "new ShiftAction{n}"
ShiftAction(n) == [type |-> "Shift", nonterminal |-> "", arity |-> 0, thunk |-> << >>, target |-> n]

(***************************************************************************)
(* Inputs of the parser generator.  A grammar is the Grammar that          *)
(* parseGrammar returns for a configuration: the user's productions, the   *)
(* synthetic start production and the priority list.                       *)
(***************************************************************************)
MaxProds == 3

MaxPrio == 3

Rule(n, ts) == [nt |-> n, terms |-> ts]

\* productions a configuration of the family is made of
ProductionPool ==
  { Rule("S", <<"a", "S">>), Rule("S", <<"a">>), Rule("S", <<"S">>), Rule("S", <<"A">>),
    Rule("S", <<"S", "b", "S">>), Rule("S", <<"S", "c", "S">>),
    Rule("S", <<"a", "b", "c">>), Rule("S", <<"a", "A", "c">>),
    Rule("A", <<"b">>), Rule("A", <<"a">>), Rule("A", << >>) }

PriorityPool == {"a", "b", "c"}

RECURSIVE RulesOf(_, _)
RulesOf(prods, n) ==
  LET mine == {p \in prods : p.nt = n}
  IN  IF mine = {} THEN << >>
      ELSE LET m == CHOOSE x \in mine : \A y \in mine \ {x} : VecLess(x.terms, y.terms)
           IN  <<[terms |-> m.terms]>> \o RulesOf(prods \ {m}, n)

\* parseGrammar: the "grammar" object, the synthetic start rule, the priorities
parseGrammar(prods, startSymbol, prio) ==
  [grammar |-> [n \in {p.nt : p \in prods} \cup {kStartSymbol} |->
                  IF n = kStartSymbol THEN << [terms |-> <<startSymbol>>] >>
                  ELSE RulesOf(prods, n)],
   priorities |-> prio]

Configs ==
  {c \in [prods : {P \in SUBSET ProductionPool : Cardinality(P) \in 1..MaxProds},
          start : {"S", "A"},
          prio : {q \in UNION {[1..n -> PriorityPool] : n \in 0..MaxPrio} :
                    \A x, y \in DOMAIN q : x # y => q[x] # q[y]}] :
     \E p \in c.prods : p.nt = c.start}

\* scenario: E -> E + E | E * E | ( E ) | id, priorities ["*", "+"]
ArithConfig ==
  [prods |-> { Rule("E", <<"E", "+", "E">>), Rule("E", <<"E", "*", "E">>),
               Rule("E", <<"(", "E", ")">>), Rule("E", <<"id">>) },
   start |-> "E", prio |-> <<"*", "+">>]

ArithGrammar == parseGrammar(ArithConfig.prods, ArithConfig.start, ArithConfig.prio)

\* scenario: S -> a S | a, no priorities
ConflictGrammar ==
  parseGrammar({Rule("S", <<"a", "S">>), Rule("S", <<"a">>)}, "S", << >>)

VARIABLES g, pc, worklist, setToIndex, indexToSet, follow, i, actions, owners,
          todo, claimedBy, cerr, table

\* generateObfuscated / obfuscate (Main.cpp)
VARIABLES refCfg, opc, len, singletons, regex, dfa, allButSingleton, cfg, obs,
          equivalent, unused, output, contractsMet

\* toJSON / parseCFG round trip
VARIABLES jcfg, jalphabet, jpc, json, parsed

obVars == <<refCfg, opc, len, singletons, regex, dfa, allButSingleton, cfg, obs,
            equivalent, unused, output, contractsMet>>

jsVars == <<jcfg, jalphabet, jpc, json, parsed>>

pgVars == <<g, pc, worklist, setToIndex, indexToSet, follow, i, actions, owners,
            todo, claimedBy, cerr, table>>

\* one call of a library function: its name, its argument, what it returned
VARIABLES callee, args, ret

\* seemEquivalent (Main.cpp), one sample at a time
VARIABLES fzOne, fzTwo, fzPc, fzI, fzTrial, fzStr, fzOut, fzResult

callVars == <<callee, args, ret>>

fzVars == <<fzOne, fzTwo, fzPc, fzI, fzTrial, fzStr, fzOut, fzResult>>

vars == <<pgVars, obVars, jsVars, callVars, fzVars>>

NoItems == [x \in {} |-> Item("", << >>, 0)]

NoActions == [x \in {} |-> HaltAction]

InitPG ==
  /\ \E c \in Configs \cup {ArithConfig} : g = parseGrammar(c.prods, c.start, c.prio)
  /\ pc = "configSets"
  /\ worklist = << closureOf(g, Item(kStartSymbol, g.grammar[kStartSymbol][1].terms, 0)) >>
  /\ setToIndex = [x \in {} |-> 0]
  /\ indexToSet = [x \in {} |-> {}]
  /\ follow = EmptyMap
  /\ i = 0
  /\ actions = NoActions
  /\ owners = NoItems
  /\ todo = << >>
  /\ claimedBy = NoItems
  /\ cerr = << >>
  /\ table = << >>

\* the values of a map in the order of its keys
RECURSIVE ValuesInKeyOrder(_, _, _)
ValuesInKeyOrder(m, keys, k) ==
  IF k > Len(keys) THEN << >>
  ELSE <<m[keys[k]]>> \o ValuesInKeyOrder(m, keys, k + 1)

\* mutant of ConfigStep: setToIndex numbers the sets from 1
ConfigStepOffByOne ==
  /\ UNCHANGED <<obVars, jsVars, callVars, fzVars>>
  /\ pc = "configSets"
  /\ worklist # << >>
  /\ LET curr == worklist[Len(worklist)]
         rest == SubSeq(worklist, 1, Len(worklist) - 1)
     IN  IF curr \in DOMAIN setToIndex
         THEN /\ worklist' = rest
              /\ UNCHANGED <<setToIndex, indexToSet>>
         ELSE LET succ == successorsOf(g, curr)
              IN  /\ setToIndex' = Put(setToIndex, curr, Cardinality(DOMAIN setToIndex) + 1)
                  /\ indexToSet' = Put(indexToSet, Cardinality(DOMAIN indexToSet), curr)
                  /\ worklist' = rest \o ValuesInKeyOrder(succ, SortStrs(DOMAIN succ), 1)
  /\ UNCHANGED <<g, pc, follow, i, actions, owners, todo, claimedBy, cerr, table>>

\* mutant of ConfigStep: the last successor is not pushed on the worklist
ConfigStepDropsSuccessor ==
  /\ UNCHANGED <<obVars, jsVars, callVars, fzVars>>
  /\ pc = "configSets"
  /\ worklist # << >>
  /\ LET curr == worklist[Len(worklist)]
         rest == SubSeq(worklist, 1, Len(worklist) - 1)
     IN  IF curr \in DOMAIN setToIndex
         THEN /\ worklist' = rest
              /\ UNCHANGED <<setToIndex, indexToSet>>
         ELSE LET succ == successorsOf(g, curr)
                  all  == ValuesInKeyOrder(succ, SortStrs(DOMAIN succ), 1)
              IN  /\ setToIndex' = Put(setToIndex, curr, Cardinality(DOMAIN setToIndex))
                  /\ indexToSet' = Put(indexToSet, Cardinality(DOMAIN indexToSet), curr)
                  /\ worklist' = rest \o SubSeq(all, 1, Len(all) - 1)
  /\ UNCHANGED <<g, pc, follow, i, actions, owners, todo, claimedBy, cerr, table>>

\* mutant of ConfigStep: a set that is already indexed is expanded again
ConfigStepRevisits ==
  /\ UNCHANGED <<obVars, jsVars, callVars, fzVars>>
  /\ pc = "configSets"
  /\ worklist # << >>
  /\ LET curr == worklist[Len(worklist)]
         rest == SubSeq(worklist, 1, Len(worklist) - 1)
         succ == successorsOf(g, curr)
     IN  /\ IF curr \in DOMAIN setToIndex
            THEN UNCHANGED <<setToIndex, indexToSet>>
            ELSE /\ setToIndex' = Put(setToIndex, curr, Cardinality(DOMAIN setToIndex))
                 /\ indexToSet' = Put(indexToSet, Cardinality(DOMAIN indexToSet), curr)
         /\ worklist' = rest \o ValuesInKeyOrder(succ, SortStrs(DOMAIN succ), 1)
  /\ UNCHANGED <<g, pc, follow, i, actions, owners, todo, claimedBy, cerr, table>>

\* generateConfiguratingSets: one turn of the worklist loop
ConfigStep ==
  /\ UNCHANGED <<obVars, jsVars, callVars, fzVars>>
  /\ pc = "configSets"
  /\ worklist # << >>
  /\ LET curr == worklist[Len(worklist)]
         rest == SubSeq(worklist, 1, Len(worklist) - 1)
     IN  IF curr \in DOMAIN setToIndex
         THEN /\ worklist' = rest
              /\ UNCHANGED <<setToIndex, indexToSet>>
         ELSE LET succ == successorsOf(g, curr)
              IN  /\ setToIndex' = Put(setToIndex, curr, Cardinality(DOMAIN setToIndex))
                  /\ indexToSet' = Put(indexToSet, Cardinality(DOMAIN indexToSet), curr)
                  /\ worklist' = rest \o ValuesInKeyOrder(succ, SortStrs(DOMAIN succ), 1)
  /\ UNCHANGED <<g, pc, follow, i, actions, owners, todo, claimedBy, cerr, table>>

\* generateConfiguratingSets returns; actionTable starts with followSets(g)
BeginTable ==
  /\ UNCHANGED <<obVars, jsVars, callVars, fzVars>>
  /\ pc = "configSets"
  /\ worklist = << >>
  /\ follow' = followSets(g)
  /\ i' = 0
  /\ pc' = "state"
  /\ UNCHANGED <<g, worklist, setToIndex, indexToSet, actions, owners, todo, claimedBy,
                 cerr, table>>

\* the claims of the loops over reductionsIn / haltsIn: (r, symbol) in loop order;
\* follow.at(r.nonterminal) throws when the map has no entry
RECURSIVE ClaimsOf(_, _, _)
ClaimsOf(rs, k, fol) ==
  IF k > Len(rs) THEN << >>
  ELSE IF rs[k].nonterminal \notin DOMAIN fol
       THEN << [r |-> rs[k], symbol |-> "", throws |-> TRUE] >>
       ELSE LET syms == SortStrs(fol[rs[k].nonterminal])
            IN  [n \in 1..Len(syms) |-> [r |-> rs[k], symbol |-> syms[n], throws |-> FALSE]]
                \o ClaimsOf(rs, k + 1, fol)

\* top of the loop over the states: fresh actions and owners
StartState ==
  /\ UNCHANGED <<obVars, jsVars, callVars, fzVars>>
  /\ pc = "state"
  /\ i < Cardinality(DOMAIN indexToSet)
  /\ actions' = NoActions
  /\ owners' = NoItems
  /\ claimedBy' = NoItems
  /\ todo' = ClaimsOf(SortProds(reductionsIn(indexToSet[i])), 1, follow)
  /\ pc' = "reduce"
  /\ UNCHANGED <<g, worklist, setToIndex, indexToSet, follow, i, cerr, table>>

\* mutant of Claim: the last writer takes the cell
ClaimLastWins(action) ==
  LET e == Head(todo)
  IN  IF e.throws
      THEN /\ pc' = "threw"
           /\ UNCHANGED <<actions, owners, cerr, todo>>
      ELSE /\ todo' = Tail(todo)
           /\ pc' = pc
           /\ actions' = Put(actions, e.symbol, action)
           /\ owners' = Put(owners, e.symbol, e.r)
           /\ IF e.symbol \notin DOMAIN actions
              THEN cerr' = cerr
              ELSE cerr' = Append(cerr, [state |-> i, current |-> owners[e.symbol],
                                         other |-> e.r])

\* mutant of Claim: a claimed cell is skipped without a warning
ClaimSilent(action) ==
  LET e == Head(todo)
  IN  IF e.throws
      THEN /\ pc' = "threw"
           /\ UNCHANGED <<actions, owners, cerr, todo>>
      ELSE /\ todo' = Tail(todo)
           /\ pc' = pc
           /\ cerr' = cerr
           /\ IF e.symbol \notin DOMAIN actions
              THEN /\ actions' = Put(actions, e.symbol, action)
                   /\ owners' = Put(owners, e.symbol, e.r)
              ELSE UNCHANGED <<actions, owners>>

\* the body of the reduce and halt loops: first writer wins, else a warning
Claim(action) ==
  LET e == Head(todo)
  IN  IF e.throws
      THEN /\ pc' = "threw"
           /\ UNCHANGED <<actions, owners, cerr, todo>>
      ELSE /\ todo' = Tail(todo)
           /\ pc' = pc
           /\ IF e.symbol \notin DOMAIN actions
              THEN /\ actions' = Put(actions, e.symbol, action)
                   /\ owners' = Put(owners, e.symbol, e.r)
                   /\ cerr' = cerr
              ELSE /\ cerr' = Append(cerr, [state |-> i, current |-> owners[e.symbol],
                                            other |-> e.r])
                   /\ UNCHANGED <<actions, owners>>

ReduceClaim ==
  /\ UNCHANGED <<obVars, jsVars, callVars, fzVars>>
  /\ pc = "reduce"
  /\ todo # << >>
  /\ Claim(reduceActionFor(Head(todo).r))
  /\ UNCHANGED <<g, worklist, setToIndex, indexToSet, follow, i, claimedBy, table>>

StartHalts ==
  /\ UNCHANGED <<obVars, jsVars, callVars, fzVars>>
  /\ pc = "reduce"
  /\ todo = << >>
  /\ todo' = ClaimsOf(SortProds(haltsIn(indexToSet[i])), 1, follow)
  /\ pc' = "halt"
  /\ UNCHANGED <<g, worklist, setToIndex, indexToSet, follow, i, actions, owners,
                 claimedBy, cerr, table>>

HaltClaim ==
  /\ UNCHANGED <<obVars, jsVars, callVars, fzVars>>
  /\ pc = "halt"
  /\ todo # << >>
  /\ Claim(HaltAction)
  /\ UNCHANGED <<g, worklist, setToIndex, indexToSet, follow, i, claimedBy, table>>

\* the shift loop starts; claimedBy keeps the owners the reduce and halt loops left
StartShifts ==
  /\ UNCHANGED <<obVars, jsVars, callVars, fzVars>>
  /\ pc = "halt"
  /\ todo = << >>
  /\ LET ss == SortProds(shiftsIn(indexToSet[i]))
     IN  todo' = [n \in 1..Len(ss) |->
                    [r |-> ss[n], symbol |-> ss[n].items[ss[n].index + 1], throws |-> FALSE]]
  /\ claimedBy' = owners
  /\ pc' = "shift"
  /\ UNCHANGED <<g, worklist, setToIndex, indexToSet, follow, i, actions, owners, cerr, table>>

\* mutant of ShiftTakes: the priority comparison the other way round
ShiftTakesFlipped(gr, acts, own, symbol, command, s) ==
  \/ symbol \notin DOMAIN acts
  \/ acts[symbol] = command
  \/ priorityOf(gr, own[symbol]) <= priorityOf(gr, s)

\* mutant of ShiftTakes: a tie keeps the reduce
ShiftTakesStrict(gr, acts, own, symbol, command, s) ==
  \/ symbol \notin DOMAIN acts
  \/ acts[symbol] = command
  \/ priorityOf(gr, own[symbol]) > priorityOf(gr, s)

\* the test of the shift loop: unclaimed, same command, or owner of no better priority
ShiftTakes(gr, acts, own, symbol, command, s) ==
  \/ symbol \notin DOMAIN acts
  \/ acts[symbol] = command
  \/ priorityOf(gr, own[symbol]) >= priorityOf(gr, s)

ShiftClaim ==
  /\ UNCHANGED <<obVars, jsVars, callVars, fzVars>>
  /\ pc = "shift"
  /\ todo # << >>
  /\ LET s == Head(todo).r
         symbol == Head(todo).symbol
         successors == successorsOf(g, indexToSet[i])
     IN  IF successors[symbol] \notin DOMAIN setToIndex
         THEN /\ pc' = "threw"
              /\ UNCHANGED <<actions, owners, todo>>
         ELSE LET command == ShiftAction(setToIndex[successors[symbol]])
              IN  /\ todo' = Tail(todo)
                  /\ pc' = pc
                  /\ IF ShiftTakes(g, actions, owners, symbol, command, s)
                     THEN /\ actions' = Put(actions, symbol, command)
                          /\ owners' = Put(owners, symbol, s)
                     ELSE UNCHANGED <<actions, owners>>
  /\ UNCHANGED <<g, worklist, setToIndex, indexToSet, follow, i, claimedBy, cerr, table>>

\* the state's row is written to the result; on to the next state
EmitState ==
  /\ UNCHANGED <<obVars, jsVars, callVars, fzVars>>
  /\ pc = "shift"
  /\ todo = << >>
  /\ table' = Append(table, actions)
  /\ i' = i + 1
  /\ pc' = "state"
  /\ UNCHANGED <<g, worklist, setToIndex, indexToSet, follow, actions, owners, todo,
                 claimedBy, cerr>>

Finish ==
  /\ UNCHANGED <<obVars, jsVars, callVars, fzVars>>
  /\ pc = "state"
  /\ i = Cardinality(DOMAIN indexToSet)
  /\ pc' = "done"
  /\ UNCHANGED <<g, worklist, setToIndex, indexToSet, follow, i, actions, owners, todo,
                 claimedBy, cerr, table>>

\* the subsystems a specification does not run stay as they are
IdleOb ==
  /\ refCfg = << >> /\ opc = "idle" /\ len = 0 /\ singletons = {} /\ regex = << >>
  /\ dfa = << >> /\ allButSingleton = << >> /\ cfg = << >> /\ obs = << >>
  /\ equivalent = "unknown" /\ unused = << >> /\ output = << >>
  /\ contractsMet = TRUE

IdleJs ==
  /\ jcfg = << >> /\ jalphabet = {} /\ jpc = "idle" /\ json = << >> /\ parsed = << >>

IdlePG ==
  /\ g = << >> /\ pc = "idle" /\ worklist = << >> /\ setToIndex = << >>
  /\ indexToSet = << >> /\ follow = << >> /\ i = 0 /\ actions = << >> /\ owners = << >>
  /\ todo = << >> /\ claimedBy = << >> /\ cerr = << >> /\ table = << >>

IdleCalls == callee = "none" /\ args = << >> /\ ret = << >>

IdleFz ==
  /\ fzOne = << >> /\ fzTwo = << >> /\ fzPc = "idle" /\ fzI = 0 /\ fzTrial = 0
  /\ fzStr = << >> /\ fzOut = << >> /\ fzResult = "unknown"

\* generateParser on one configuration
Init == InitPG /\ IdleOb /\ IdleJs /\ IdleCalls /\ IdleFz

Next ==
  \/ ConfigStep
  \/ BeginTable
  \/ StartState
  \/ ReduceClaim
  \/ StartHalts
  \/ HaltClaim
  \/ StartShifts
  \/ ShiftClaim
  \/ EmitState
  \/ Finish

Spec == Init /\ [][Next]_vars

\* generateParser runs on one thread from start to end: every step is weakly
\* fair.  For the steps that compute item sets or sort them, WF_vars(A) is
\* written out as []<>~ENABLED <<A>>_vars \/ []<><<A>>_vars with the step's
\* guard for ENABLED <<A>>_vars (each of these steps changes pc, todo, worklist
\* or setToIndex whenever its guard holds).
FairSpec ==
  /\ Init
  /\ [][Next]_vars
  /\ WF_vars(ReduceClaim) /\ WF_vars(HaltClaim) /\ WF_vars(EmitState) /\ WF_vars(Finish)
  /\ ([]<>(~(pc = "configSets" /\ worklist # << >>)) \/ []<><<ConfigStep>>_vars)
  /\ ([]<>(~(pc = "configSets" /\ worklist = << >>)) \/ []<><<BeginTable>>_vars)
  /\ ([]<>(~(pc = "state" /\ i < Cardinality(DOMAIN indexToSet))) \/ []<><<StartState>>_vars)
  /\ ([]<>(~(pc = "reduce" /\ todo = << >>)) \/ []<><<StartHalts>>_vars)
  /\ ([]<>(~(pc = "halt" /\ todo = << >>)) \/ []<><<StartShifts>>_vars)
  /\ ([]<>(~(pc = "shift" /\ todo # << >>)) \/ []<><<ShiftClaim>>_vars)

(***************************************************************************)
(* Utilities/Unicode.h: strings are UTF-8 byte sequences, characters are   *)
(* char32_t code points.                                                   *)
(***************************************************************************)
toUTF8(ch) ==
  IF ch < 128 THEN <<ch>>
  ELSE IF ch < 2048 THEN <<192 + (ch \div 64), 128 + (ch % 64)>>
  ELSE IF ch < 65536
         THEN <<224 + (ch \div 4096), 128 + ((ch \div 64) % 64), 128 + (ch % 64)>>
         ELSE <<240 + (ch \div 262144), 128 + ((ch \div 4096) % 64),
                128 + ((ch \div 64) % 64), 128 + (ch % 64)>>

\* number of bytes announced by a lead byte
utf8Width(b) == IF b < 128 THEN 1 ELSE IF b < 224 THEN 2 ELSE IF b < 240 THEN 3 ELSE 4

utf8Decode(bs) ==
  IF Len(bs) = 1 THEN bs[1]
  ELSE IF Len(bs) = 2 THEN (bs[1] - 192) * 64 + (bs[2] - 128)
  ELSE IF Len(bs) = 3
         THEN (bs[1] - 224) * 4096 + (bs[2] - 128) * 64 + (bs[3] - 128)
         ELSE (bs[1] - 240) * 262144 + (bs[2] - 128) * 4096
              + (bs[3] - 128) * 64 + (bs[4] - 128)

RECURSIVE utf8Reader(_)
utf8Reader(str) ==
  IF str = << >> THEN << >>
  ELSE LET w == utf8Width(str[1])
       IN  <<utf8Decode(SubSeq(str, 1, w))>> \o utf8Reader(SubSeq(str, w + 1, Len(str)))

fromUTF8(str) == Head(utf8Reader(str))

RECURSIVE utf8Of(_)
utf8Of(chars) ==
  IF chars = << >> THEN << >> ELSE toUTF8(Head(chars)) \o utf8Of(Tail(chars))

(***************************************************************************)
(* CFG.h: symbols, productions, grammars                                   *)
(***************************************************************************)
terminal(ch) == [type |-> "TERMINAL", ch |-> ch]

nonterminal(ch) == [type |-> "NONTERMINAL", ch |-> ch]

Production(n, repl) == [nonterminal |-> n, replacement |-> repl]

CFG(alphabet, nonterminals, startSymbol, productions) ==
  [alphabet |-> alphabet, nonterminals |-> nonterminals,
   startSymbol |-> startSymbol, productions |-> productions]

(***************************************************************************)
(* Main.cpp: JSON writer                                                   *)
(***************************************************************************)
jsonSymbols(p) ==
  [j \in DOMAIN p |->
     [type |-> IF p[j].type = "TERMINAL" THEN "T" ELSE "NT", data |-> toUTF8(p[j].ch)]]

jsonRules(c) ==
  [k \in DOMAIN c.productions |->
     [name       |-> toUTF8(c.productions[k].nonterminal),
      production |-> jsonSymbols(c.productions[k].replacement)]]

toJSON(c) == [start |-> toUTF8(c.startSymbol), rules |-> jsonRules(c)]

RECURSIVE charsInOrder(_)
charsInOrder(S) ==
  IF S = {} THEN << >>
  ELSE LET lo == CHOOSE x \in S : \A y \in S : x <= y
       IN  <<lo>> \o charsInOrder(S \ {lo})

toString(alphabet) == utf8Of(charsInOrder(alphabet))

(***************************************************************************)
(* CFGParser.cpp: JSON decoder.  A result is [error, cfg]; once parseError *)
(* has thrown nothing more is read.                                        *)
(***************************************************************************)
RECURSIVE parseJSONSymbols(_, _, _, _)
parseJSONSymbols(result, alphabet, symbols, p) ==
  IF symbols = << >> \/ result.error THEN [result |-> result, p |-> p]
  ELSE LET symbol == Head(symbols)
           ch     == fromUTF8(symbol.data)
       IN  IF symbol.type = "T"
             THEN IF ch \notin alphabet
                    THEN [result |-> [result EXCEPT !.error = TRUE], p |-> p]
                    ELSE parseJSONSymbols(result, alphabet, Tail(symbols),
                           [p EXCEPT !.replacement = Append(@, terminal(ch))])
           ELSE IF symbol.type = "NT"
             THEN parseJSONSymbols(
                    [result EXCEPT !.cfg.nonterminals = @ \cup {ch}],
                    alphabet, Tail(symbols),
                    [p EXCEPT !.replacement = Append(@, nonterminal(ch))])
           ELSE [result |-> [result EXCEPT !.error = TRUE], p |-> p]

parseJSONRuleNoLhs(result, alphabet, rule) ==
  LET r == parseJSONSymbols(result, alphabet, rule.production,
                            Production(fromUTF8(rule.name), << >>))
  IN  IF r.result.error THEN r.result
      ELSE [r.result EXCEPT !.cfg.productions = Append(@, r.p)]

parseJSONRule(result, alphabet, rule) ==
  LET r == parseJSONSymbols(result, alphabet, rule.production,
                            Production(fromUTF8(rule.name), << >>))
  IN  IF r.result.error THEN r.result
      ELSE [r.result EXCEPT !.cfg.nonterminals = @ \cup {r.p.nonterminal},
                            !.cfg.productions  = Append(@, r.p)]

RECURSIVE parseJSONRules(_, _, _)
parseJSONRules(result, alphabet, rules) ==
  IF rules = << >> \/ result.error THEN result
  ELSE parseJSONRules(parseJSONRule(result, alphabet, Head(rules)), alphabet, Tail(rules))

parseCFG(data, alphabet) ==
  parseJSONRules([error |-> FALSE,
                  cfg   |-> CFG(alphabet, {}, fromUTF8(data.start), << >>)],
                 alphabet, data.rules)

(***************************************************************************)
(* CFGParser.cpp: the recursive-descent parser on a token stream.  A       *)
(* parsing function returns [error, input, value]: the message parseError  *)
(* threw ("" when it returned), the tokens left, and what it returned.     *)
(***************************************************************************)
Token(type, data) == [type |-> type, data |-> data]

peek(input, index) ==
  IF index >= Len(input)
    THEN [error |-> "Unexpected end of input found.", token |-> Token("NONE", 0)]
    ELSE [error |-> "", token |-> input[index + 1]]

Thrown(message) == [error |-> message, input |-> << >>, value |-> << >>]

\* mutant of parseSymbols: a string of no symbols is an unexpected token
RECURSIVE parseSymbolsNonEmpty(_, _, _)
parseSymbolsNonEmpty(input, alphabet, symbols) ==
  LET p0    == peek(input, 0)
      p1    == peek(input, 1)
      token == p0.token
  IN  IF p0.error # "" THEN Thrown(p0.error)
      ELSE IF token.type \in {"BAR", "SCAN_EOF"}
        THEN IF symbols = << >> THEN Thrown("Unexpected token.")
             ELSE [error |-> "", input |-> input, value |-> symbols]
      ELSE IF token.type = "NONTERMINAL" /\ p1.error # "" THEN Thrown(p1.error)
      ELSE IF token.type = "NONTERMINAL" /\ p1.token.type = "ARROW"
        THEN IF symbols = << >> THEN Thrown("Unexpected token.")
             ELSE [error |-> "", input |-> input, value |-> symbols]
      ELSE IF token.type = "TERMINAL"
        THEN IF token.data \notin alphabet
               THEN Thrown("Character is not in alphabet.")
               ELSE parseSymbolsNonEmpty(Tail(input), alphabet,
                                         Append(symbols, terminal(token.data)))
      ELSE IF token.type = "NONTERMINAL"
        THEN parseSymbolsNonEmpty(Tail(input), alphabet,
                                  Append(symbols, nonterminal(token.data)))
      ELSE Thrown("Unexpected token.")

\* the while loop of parseProduction
RECURSIVE parseSymbols(_, _, _)
parseSymbols(input, alphabet, symbols) ==
  LET p0    == peek(input, 0)
      p1    == peek(input, 1)
      token == p0.token
  IN  IF p0.error # "" THEN Thrown(p0.error)
      ELSE IF token.type \in {"BAR", "SCAN_EOF"}
        THEN [error |-> "", input |-> input, value |-> symbols]
      ELSE IF token.type = "NONTERMINAL" /\ p1.error # "" THEN Thrown(p1.error)
      ELSE IF token.type = "NONTERMINAL" /\ p1.token.type = "ARROW"
        THEN [error |-> "", input |-> input, value |-> symbols]
      ELSE IF token.type = "TERMINAL"
        THEN IF token.data \notin alphabet
               THEN Thrown("Character is not in alphabet.")
               ELSE parseSymbols(Tail(input), alphabet,
                                 Append(symbols, terminal(token.data)))
      ELSE IF token.type = "NONTERMINAL"
        THEN parseSymbols(Tail(input), alphabet,
                          Append(symbols, nonterminal(token.data)))
      ELSE Thrown("Unexpected token.")

parseProduction(input, alphabet, nt) ==
  LET p0 == peek(input, 0)
  IN  IF p0.error # "" THEN Thrown(p0.error)
      ELSE IF p0.token.type = "EPSILON"
        THEN [error |-> "", input |-> Tail(input), value |-> Production(nt, << >>)]
      ELSE LET r == parseSymbols(input, alphabet, << >>)
           IN  IF r.error # "" THEN r
               ELSE [r EXCEPT !.value = Production(nt, r.value)]

RECURSIVE parseProductionList(_, _, _, _)
parseProductionList(input, alphabet, nt, result) ==
  LET r == parseProduction(input, alphabet, nt)
  IN  IF r.error # "" THEN r
      ELSE LET p0 == peek(r.input, 0)
           IN  IF p0.error # "" THEN Thrown(p0.error)
               ELSE IF p0.token.type # "BAR"
                 THEN [error |-> "", input |-> r.input,
                       value |-> Append(result, r.value)]
               ELSE parseProductionList(Tail(r.input), alphabet, nt,
                                        Append(result, r.value))

parseVariableDecl(input, alphabet) ==
  LET d0 == peek(input, 0)
      d1 == peek(input, 1)
  IN  IF d0.error # "" THEN Thrown(d0.error)
      ELSE IF d0.token.type # "NONTERMINAL" THEN Thrown("Expected a nonterminal.")
      ELSE IF d1.error # "" THEN Thrown(d1.error)
      ELSE IF d1.token.type # "ARROW" THEN Thrown("Expected an arrow.")
      ELSE parseProductionList(SubSeq(input, 3, Len(input)), alphabet,
                               d0.token.data, << >>)

\* mutant of parseGrammarLoop: every declaration becomes the start symbol
RECURSIVE parseGrammarLoopLastStart(_, _, _)
parseGrammarLoopLastStart(input, alphabet, result) ==
  LET variable == parseVariableDecl(input, alphabet)
  IN  IF variable.error # "" THEN [error |-> variable.error, cfg |-> << >>]
      ELSE LET nt   == variable.value[1].nonterminal
               next == [result EXCEPT
                          !.nonterminals = @ \cup {nt},
                          !.startSymbol  = nt,
                          !.productions  = @ \o variable.value]
           IN  IF variable.input[1].type # "SCAN_EOF"
                 THEN parseGrammarLoopLastStart(variable.input, alphabet, next)
               ELSE [error |-> "", cfg |-> next]

\* the do-while loop of parseGrammar; a result is [error, cfg]
RECURSIVE parseGrammarLoop(_, _, _)
parseGrammarLoop(input, alphabet, result) ==
  LET variable == parseVariableDecl(input, alphabet)
  IN  IF variable.error # "" THEN [error |-> variable.error, cfg |-> << >>]
      ELSE LET nt   == variable.value[1].nonterminal
               next == [result EXCEPT
                          !.nonterminals = @ \cup {nt},
                          !.startSymbol  = IF @ = 0 THEN nt ELSE @,
                          !.productions  = @ \o variable.value]
           IN  IF variable.input[1].type # "SCAN_EOF"
                 THEN parseGrammarLoop(variable.input, alphabet, next)
               ELSE IF next.nonterminals = {}
                 THEN [error |-> "No productions found.", cfg |-> << >>]
               ELSE [error |-> "", cfg |-> next]

\* parseCFG(deque<Token>, alphabet), which is parseGrammar
parseCFGTokens(input, alphabet) ==
  parseGrammarLoop(input, alphabet, CFG(alphabet, {}, 0, << >>))

(***************************************************************************)
(* Main.cpp: validate, complementOf, cfgForSingletons, sillyRename, escape *)
(***************************************************************************)
kNumStrings == 10

kBaseUnicode == 127744

validateSymbolsOnly(c) ==
  \A k \in DOMAIN c.productions :
     \A j \in DOMAIN c.productions[k].replacement :
        LET s == c.productions[k].replacement[j]
        IN  IF s.type = "TERMINAL" THEN s.ch \in c.alphabet
                                   ELSE s.ch \in c.nonterminals

\* TRUE when validate returns, FALSE when it aborts
validate(c) ==
  LET producers == {c.productions[k].nonterminal : k \in DOMAIN c.productions}
  IN  /\ \A k \in DOMAIN c.productions :
           \A j \in DOMAIN c.productions[k].replacement :
              LET s == c.productions[k].replacement[j]
              IN  IF s.type = "TERMINAL" THEN s.ch \in c.alphabet
                                         ELSE s.ch \in c.nonterminals
      /\ producers = c.nonterminals

complementOfKeep(d) == d

complementOf(d) ==
  [d EXCEPT !.isAccepting = [q \in DOMAIN d.isAccepting |-> ~d.isAccepting[q]]]

RECURSIVE terminalsOf(_)
terminalsOf(chars) ==
  IF chars = << >> THEN << >> ELSE <<terminal(Head(chars))>> \o terminalsOf(Tail(chars))

\* std::string operator<: bytewise lexicographic
BytesLess(a, b) ==
  \/ /\ Len(a) < Len(b)
     /\ \A k \in 1..Len(a) : a[k] = b[k]
  \/ \E k \in 1..Len(a) : /\ k <= Len(b)
                          /\ a[k] < b[k]
                          /\ \A j \in 1..(k - 1) : a[j] = b[j]

\* iteration order of a std::set<string>
RECURSIVE stringsInOrder(_)
stringsInOrder(S) ==
  IF S = {} THEN << >>
  ELSE LET lo == CHOOSE x \in S : \A y \in S \ {x} : BytesLess(x, y)
       IN  <<lo>> \o stringsInOrder(S \ {lo})

RECURSIVE singletonProductions(_)
singletonProductions(strs) ==
  IF strs = << >> THEN << >>
  ELSE <<Production(83, terminalsOf(utf8Reader(Head(strs))))>>
       \o singletonProductions(Tail(strs))

cfgForSingletons(strings, alphabet) ==
  CFG(alphabet, {83}, 83, singletonProductions(stringsInOrder(strings)))

nameForFresh(st, ch) ==
  [replacements |-> (ch :> st.next) @@ st.replacements,
   next         |-> st.next + 1,
   nonterminals |-> st.nonterminals \cup {st.next}]

\* the lambda nameFor: st is [replacements, next, nonterminals]
nameFor(st, ch) ==
  IF ch \in DOMAIN st.replacements THEN st
  ELSE [replacements |-> (ch :> st.next) @@ st.replacements,
        next         |-> st.next + 1,
        nonterminals |-> st.nonterminals \cup {st.next}]

RECURSIVE renameSymbols(_, _, _)
renameSymbols(st, repl, out) ==
  IF repl = << >> THEN [st |-> st, out |-> out]
  ELSE LET symbol == Head(repl)
       IN  IF symbol.type = "NONTERMINAL"
             THEN LET st2 == nameFor(st, symbol.ch)
                  IN  renameSymbols(st2, Tail(repl),
                                    Append(out, nonterminal(st2.replacements[symbol.ch])))
             ELSE renameSymbols(st, Tail(repl), Append(out, symbol))

RECURSIVE renameProductions(_, _, _)
renameProductions(st, prods, out) ==
  IF prods = << >> THEN [st |-> st, out |-> out]
  ELSE LET prod == Head(prods)
           st1  == nameFor(st, prod.nonterminal)
           r    == renameSymbols(st1, prod.replacement, << >>)
       IN  renameProductions(r.st, Tail(prods),
             Append(out, Production(st1.replacements[prod.nonterminal], r.out)))

sillyRename(c) ==
  LET r  == renameProductions([replacements |-> << >>, next |-> kBaseUnicode,
                               nonterminals |-> {}], c.productions, << >>)
      st == nameFor(r.st, c.startSymbol)
  IN  CFG(c.alphabet, st.nonterminals, st.replacements[c.startSymbol], r.out)

\* Regex::isSpecialChar: the characters the regex scanner gives a meaning
isSpecialChar(ch) == ch \in {64, 124, 92, 42, 43, 63, 40, 41, 46, 95}

RECURSIVE escapeChars(_)
escapeChars(chars) ==
  IF chars = << >> THEN << >>
  ELSE (IF isSpecialChar(Head(chars)) THEN <<92>> ELSE << >>)
       \o toUTF8(Head(chars)) \o escapeChars(Tail(chars))

escape(input) == escapeChars(utf8Reader(input))

(***************************************************************************)
(* The libraries obfuscate calls (CFG.h, Regex.h, Automaton.h), by their   *)
(* contracts.  Grammars here have a finite language, listed by the         *)
(* productions of the start symbol.                                        *)
(***************************************************************************)
StrLenCap == 3

MaxLang == 11

MaxSkip == 1

SizeModulus == 8

\* 'a', 'b' and the regex-special '@'
Sigma == {64, 97, 98}

Universe == UNION {[1..n -> Sigma] : n \in 1..StrLenCap}

ShortLexLess(u, v) == Len(u) < Len(v) \/ (Len(u) = Len(v) /\ BytesLess(u, v))

\* the n first words of S, shortest first
RECURSIVE firstWords(_, _)
firstWords(S, n) ==
  IF S = {} \/ n = 0 THEN << >>
  ELSE LET lo == CHOOSE x \in S : \A y \in S \ {x} : ShortLexLess(x, y)
       IN  <<lo>> \o firstWords(S \ {lo}, n - 1)

wordsInOrder(S) == firstWords(S, Cardinality(S))

Words == firstWords(Universe, MaxSkip + MaxLang)

LangWindow(lo, n) == {Words[k] : k \in {j \in lo..(lo + n - 1) : j <= Len(Words)}}

RECURSIVE flatProductions(_)
flatProductions(ws) ==
  IF ws = << >> THEN << >>
  ELSE <<Production(83, terminalsOf(Head(ws)))>> \o flatProductions(Tail(ws))

\* a grammar for the finite language T; S -> S alone when T is empty
flatCFG(alphabet, T) ==
  CFG(alphabet, {83}, 83,
      IF T = {} THEN <<Production(83, <<nonterminal(83)>>)>>
                ELSE flatProductions(wordsInOrder(T)))

ReferenceGrammars ==
  {flatCFG(Sigma, LangWindow(lo, n)) : lo \in 1..(MaxSkip + 1), n \in 0..MaxLang}

wordOf(repl) == [j \in DOMAIN repl |-> repl[j].ch]

LangOf(c) ==
  {wordOf(c.productions[k].replacement) :
     k \in {j \in DOMAIN c.productions :
              /\ c.productions[j].nonterminal = c.startSymbol
              /\ \A m \in DOMAIN c.productions[j].replacement :
                    c.productions[j].replacement[m].type = "TERMINAL"}}

\* gen(len): nothing, or some string of the language
generatorFor(c) ==
  {[first |-> FALSE, second |-> << >>]}
  \cup {[first |-> TRUE, second |-> utf8Of(w)] : w \in LangOf(c)}

matcherFor(c, str) == utf8Reader(str) \in LangOf(c)

\* Regex::scan: blanks dropped, backslash quotes, '|' and '@' are operators
RECURSIVE regexScan(_)
regexScan(chars) ==
  IF chars = << >> THEN << >>
  ELSE IF Head(chars) = 92
         THEN <<[kind |-> "CHAR", ch |-> chars[2]]>> \o regexScan(Tail(Tail(chars)))
  ELSE IF Head(chars) = 32 THEN regexScan(Tail(chars))
  ELSE IF Head(chars) = 124 THEN <<[kind |-> "BAR", ch |-> 124]>> \o regexScan(Tail(chars))
  ELSE IF Head(chars) = 64
         THEN <<[kind |-> "EMPTYSET", ch |-> 64]>> \o regexScan(Tail(chars))
  ELSE <<[kind |-> "CHAR", ch |-> Head(chars)]>> \o regexScan(Tail(chars))

\* Regex::parse on a union of strings: the words it matches; the empty-set
\* atom '@' matches nothing
RECURSIVE regexWords(_, _, _)
regexWords(toks, cur, none) ==
  IF toks = << >> THEN (IF none THEN {} ELSE {cur})
  ELSE IF Head(toks).kind = "BAR"
         THEN (IF none THEN {} ELSE {cur}) \cup regexWords(Tail(toks), << >>, FALSE)
  ELSE IF Head(toks).kind = "EMPTYSET" THEN regexWords(Tail(toks), cur, TRUE)
  ELSE regexWords(Tail(toks), Append(cur, Head(toks).ch), none)

regexLanguage(rx) == regexWords(regexScan(utf8Reader(rx)), << >>, FALSE)

Dead == <<0>>

\* minimalDFAFor(subsetConstruct(fromRegex(..., alphabet))): a total DFA of
\* the regex's words, one state per prefix and a dead state
minimalDFAFor(rx, alphabet) ==
  LET T == regexLanguage(rx)
      P == UNION {{SubSeq(w, 1, k) : k \in 0..Len(w)} : w \in T} \cup {<< >>}
      Q == P \cup {Dead}
  IN  [alphabet    |-> alphabet,
       start       |-> << >>,
       delta       |-> [q \in Q, c \in alphabet |->
                          IF q # Dead /\ Append(q, c) \in P THEN Append(q, c) ELSE Dead],
       isAccepting |-> [q \in Q |-> q \in T]]

RECURSIVE runDFA(_, _, _)
runDFA(d, q, w) ==
  IF w = << >> THEN d.isAccepting[q] ELSE runDFA(d, d.delta[q, Head(w)], Tail(w))

accepts(d, w) == runDFA(d, d.start, w)

\* what a library transform may hand back for the language T: a grammar of
\* T, a grammar of T with an undefined nonterminal, or (breaking its
\* contract) a grammar that lost a word
transformResults(alphabet, T) ==
  {[cfg |-> flatCFG(alphabet, T), met |-> TRUE],
   [cfg |-> [flatCFG(alphabet, T) EXCEPT !.nonterminals = @ \cup {88}], met |-> TRUE]}
  \cup (IF T = {} THEN {}
        ELSE {[cfg |-> flatCFG(alphabet, T \ {Head(wordsInOrder(T))}), met |-> FALSE]})

intersect(c, d) == transformResults(c.alphabet, {w \in LangOf(c) : accepts(d, w)})

unionOf(c1, c2) == transformResults(c1.alphabet, LangOf(c1) \cup LangOf(c2))

toCNF(c) == transformResults(c.alphabet, LangOf(c))

(***************************************************************************)
(* Main.cpp: seemEquivalent, obfuscate and generateObfuscated, one step    *)
(* per statement.  contractsMet records whether every library transform    *)
(* so far returned a grammar of the language its contract names.           *)
(***************************************************************************)
\* the outcomes of the fuzz test: no disagreement met, or one string that
\* one grammar generated and the other's matcher refused
seemEquivalent(one, two) ==
  {[result |-> TRUE, out |-> << >>]}
  \cup {[result |-> FALSE, out |-> str1.second] :
          str1 \in {x \in generatorFor(one) : x.first /\ ~matcherFor(two, x.second)}}
  \cup {[result |-> FALSE, out |-> str2.second] :
          str2 \in {x \in generatorFor(two) : x.first /\ ~matcherFor(one, x.second)}}

RECURSIVE regexTail(_)
regexTail(strs) ==
  IF strs = << >> THEN << >>
  ELSE <<32, 124, 32>> \o escape(Head(strs)) \o regexTail(Tail(strs))

\* "@ " followed by " | " + escape(s) for every sampled string
regexFor(strings) == <<64, 32>> \o regexTail(stringsInOrder(strings))

InitOb ==
  /\ refCfg \in ReferenceGrammars
  /\ cfg = refCfg
  /\ opc = "sample"
  /\ len = 5 % SizeModulus
  /\ singletons = {}
  /\ regex = << >> /\ dfa = << >> /\ allButSingleton = << >> /\ obs = << >>
  /\ equivalent = "unknown" /\ unused = << >> /\ output = << >>
  /\ contractsMet = TRUE
  /\ IdlePG /\ IdleJs /\ IdleCalls /\ IdleFz

Sample ==
  /\ opc = "sample"
  /\ \E str \in generatorFor(cfg) :
       IF str.first
         THEN /\ singletons' = singletons \cup {str.second}
              /\ IF Cardinality(singletons') = kNumStrings
                   THEN opc' = "regex" /\ len' = 0   \* break: len leaves scope
                   ELSE opc' = opc /\ len' = (len + 1) % SizeModulus
         ELSE /\ singletons' = singletons
              /\ opc' = opc
              /\ len' = (len + 1) % SizeModulus
  /\ UNCHANGED <<refCfg, regex, dfa, allButSingleton, cfg, obs, equivalent, unused,
                 output, contractsMet, pgVars, jsVars, callVars, fzVars>>

FormRegex ==
  /\ opc = "regex"
  /\ regex' = regexFor(singletons)
  /\ opc' = "dfa"
  /\ UNCHANGED <<refCfg, len, singletons, dfa, allButSingleton, cfg, obs, equivalent,
                 unused, output, contractsMet, pgVars, jsVars, callVars, fzVars>>

FormDFA ==
  /\ opc = "dfa"
  /\ dfa' = complementOf(minimalDFAFor(regex, cfg.alphabet))
  /\ opc' = "intersect"
  /\ UNCHANGED <<refCfg, len, singletons, regex, allButSingleton, cfg, obs, equivalent,
                 unused, output, contractsMet, pgVars, jsVars, callVars, fzVars>>

Intersect ==
  /\ opc = "intersect"
  /\ \E r \in intersect(cfg, dfa) :
       /\ allButSingleton' = r.cfg
       /\ contractsMet' = (contractsMet /\ r.met)
  /\ opc' = "validateIntersect"
  /\ UNCHANGED <<refCfg, len, singletons, regex, dfa, cfg, obs, equivalent, unused,
                 output, pgVars, jsVars, callVars, fzVars>>

\* validate(c) returns and control reaches next, or it aborts the run
ValidateStep(c, next) ==
  /\ opc' = IF validate(c) THEN next ELSE "aborted"
  /\ UNCHANGED <<refCfg, len, singletons, regex, dfa, allButSingleton, cfg, equivalent,
                 unused, output, contractsMet, pgVars, jsVars, callVars, fzVars>>

ValidateIntersect ==
  /\ opc = "validateIntersect"
  /\ ValidateStep(allButSingleton, "union")
  /\ UNCHANGED obs

Union ==
  /\ opc = "union"
  /\ \E r \in unionOf(allButSingleton, cfgForSingletons(singletons, cfg.alphabet)) :
       /\ cfg' = r.cfg
       /\ contractsMet' = (contractsMet /\ r.met)
  /\ opc' = "validateUnion"
  /\ UNCHANGED <<refCfg, len, singletons, regex, dfa, allButSingleton, obs, equivalent,
                 unused, output, pgVars, jsVars, callVars, fzVars>>

ValidateUnion ==
  /\ opc = "validateUnion"
  /\ ValidateStep(cfg, "toCNF")
  /\ UNCHANGED obs

ToCNF ==
  /\ opc = "toCNF"
  /\ \E r \in toCNF(cfg) :
       /\ cfg' = r.cfg
       /\ contractsMet' = (contractsMet /\ r.met)
  /\ opc' = "validateCNF"
  /\ UNCHANGED <<refCfg, len, singletons, regex, dfa, allButSingleton, obs, equivalent,
                 unused, output, pgVars, jsVars, callVars, fzVars>>

ValidateCNF ==
  /\ opc = "validateCNF"
  /\ ValidateStep(cfg, "sillyRename")
  /\ UNCHANGED obs

Rename ==
  /\ opc = "sillyRename"
  /\ cfg' = sillyRename(cfg)
  /\ opc' = "validateRename"
  /\ UNCHANGED <<refCfg, len, singletons, regex, dfa, allButSingleton, obs, equivalent,
                 unused, output, contractsMet, pgVars, jsVars, callVars, fzVars>>

\* the last validate; obfuscate then returns cfg into obs
ValidateRename ==
  /\ opc = "validateRename"
  /\ ValidateStep(cfg, "seemEquivalent")
  /\ obs' = IF validate(cfg) THEN cfg ELSE obs

FuzzCheckKeepsGoing ==
  /\ opc = "seemEquivalent"
  /\ \E r \in seemEquivalent(refCfg, obs) :
       /\ equivalent' = IF r.result THEN "true" ELSE "false"
       /\ unused' = r.out
       /\ opc' = "write"
  /\ UNCHANGED <<refCfg, len, singletons, regex, dfa, allButSingleton, cfg, obs, output,
                 contractsMet, pgVars, jsVars, callVars, fzVars>>

FuzzCheck ==
  /\ opc = "seemEquivalent"
  /\ \E r \in seemEquivalent(refCfg, obs) :
       /\ equivalent' = IF r.result THEN "true" ELSE "false"
       /\ unused' = r.out
       /\ opc' = IF r.result THEN "write" ELSE "aborted"
  /\ UNCHANGED <<refCfg, len, singletons, regex, dfa, allButSingleton, cfg, obs, output,
                 contractsMet, pgVars, jsVars, callVars, fzVars>>

WriteOutput ==
  /\ opc = "write"
  /\ output' = [alphabet |-> toString(refCfg.alphabet), cfg |-> toJSON(obs)]
  /\ opc' = "done"
  /\ UNCHANGED <<refCfg, len, singletons, regex, dfa, allButSingleton, cfg, obs,
                 equivalent, unused, contractsMet, pgVars, jsVars, callVars, fzVars>>

NextOb ==
  \/ Sample
  \/ FormRegex
  \/ FormDFA
  \/ Intersect
  \/ ValidateIntersect
  \/ Union
  \/ ValidateUnion
  \/ ToCNF
  \/ ValidateCNF
  \/ Rename
  \/ ValidateRename
  \/ FuzzCheck
  \/ WriteOutput

\* generateObfuscated on one reference grammar
SpecObfuscate == InitOb /\ [][NextOb]_vars

\* the same run, in which the sampling loop keeps iterating while it has not
\* left the loop
FairSpecObfuscate == InitOb /\ [][NextOb]_vars /\ WF_vars(Sample)

(***************************************************************************)
(* The JSON round trip: toJSON (Main.cpp) followed by parseCFG              *)
(* (CFGParser.cpp) on grammars with one-, two-, three- and four-byte        *)
(* characters.                                                             *)
(***************************************************************************)
MaxJsonProds == 3

\* S and the double-struck S (U+1D54A)
JsonNonterminals == {83, 120138}

\* 'a', e-acute (U+00E9) and the euro sign (U+20AC)
JsonAlphabets == {{97}, {97, 233, 8364}}

JsonProductionPool ==
  {Production(120138, <<terminal(97), nonterminal(120138)>>),
   Production(120138, << >>),
   Production(83, <<nonterminal(120138), terminal(8364)>>),
   Production(83, <<terminal(97)>>),
   Production(83, <<terminal(233), nonterminal(83)>>)}

JsonGrammars ==
  {CFG(a, ns, st, ps) :
     a \in JsonAlphabets, ns \in SUBSET JsonNonterminals, st \in JsonNonterminals,
     ps \in UNION {[1..n -> JsonProductionPool] : n \in 0..MaxJsonProds}}

InitJs ==
  /\ jcfg \in JsonGrammars
  /\ jalphabet \in JsonAlphabets
  /\ jpc = "toJSON"
  /\ json = << >>
  /\ parsed = << >>
  /\ IdlePG /\ IdleOb /\ IdleCalls /\ IdleFz

Encode ==
  /\ jpc = "toJSON"
  /\ json' = toJSON(jcfg)
  /\ jpc' = "parseCFG"
  /\ UNCHANGED <<jcfg, jalphabet, parsed, pgVars, obVars, callVars, fzVars>>

Decode ==
  /\ jpc = "parseCFG"
  /\ parsed' = parseCFG(json, jalphabet)
  /\ jpc' = "done"
  /\ UNCHANGED <<jcfg, jalphabet, json, pgVars, obVars, callVars, fzVars>>

NextJs ==
  \/ Encode
  \/ Decode

\* one grammar written as JSON and read back
SpecJSON == InitJs /\ [][NextJs]_vars

(***************************************************************************)
(* Single calls of the library's functions, each on one argument drawn     *)
(* from a bounded family.                                                  *)
(***************************************************************************)
InitCalls == IdleCalls /\ IdlePG /\ IdleOb /\ IdleJs /\ IdleFz

\* validate(cfg): the argument is a const reference
CallValidate ==
  /\ callee = "none"
  /\ \E c \in JsonGrammars :
       /\ args' = c
       /\ ret' = [returned |-> validate(c), cfg |-> c]
  /\ callee' = "validate"
  /\ UNCHANGED <<pgVars, obVars, jsVars, fzVars>>

\* sillyRename(cfg)
CallSillyRename ==
  /\ callee = "none"
  /\ \E c \in JsonGrammars :
       /\ args' = c
       /\ ret' = sillyRename(c)
  /\ callee' = "sillyRename"
  /\ UNCHANGED <<pgVars, obVars, jsVars, fzVars>>

\* cfgForSingletons(strings, alphabet) on up to five short UTF-8 strings
CallCfgForSingletons ==
  /\ callee = "none"
  /\ \E strings \in SUBSET {utf8Of(w) : w \in LangWindow(1, 5)} :
       /\ args' = [strings |-> strings, alphabet |-> Sigma]
       /\ ret' = cfgForSingletons(strings, Sigma)
  /\ callee' = "cfgForSingletons"
  /\ UNCHANGED <<pgVars, obVars, jsVars, fzVars>>

\* parseCFG(JSON, alphabet) on the documents toJSON writes
CallParseJSON ==
  /\ callee = "none"
  /\ \E c \in JsonGrammars, alphabet \in JsonAlphabets :
       /\ args' = [data |-> toJSON(c), alphabet |-> alphabet]
       /\ ret' = parseCFG(toJSON(c), alphabet)
  /\ callee' = "parseCFG(JSON)"
  /\ UNCHANGED <<pgVars, obVars, jsVars, fzVars>>

MaxTokens == 5

\* S, A, 'a', 'z' (not in the alphabet), the arrow, the bar and epsilon
TokenKinds ==
  {Token("NONTERMINAL", 83), Token("NONTERMINAL", 65), Token("TERMINAL", 97),
   Token("TERMINAL", 122), Token("ARROW", 0), Token("BAR", 0), Token("EPSILON", 0)}

\* what the scanner hands over: tokens, then the end-of-input token
TokenStreams ==
  {body \o <<Token("SCAN_EOF", 0)>> :
     body \in UNION {[1..n -> TokenKinds] : n \in 0..MaxTokens}}

\* parseCFG(tokens, alphabet)
CallParseTokens ==
  /\ callee = "none"
  /\ \E input \in TokenStreams :
       /\ args' = [input |-> input, alphabet |-> {97}]
       /\ ret' = parseCFGTokens(input, {97})
  /\ callee' = "parseCFG(tokens)"
  /\ UNCHANGED <<pgVars, obVars, jsVars, fzVars>>

MaxSetProds == 4

\* productions with nonterminals side by side, for the set computations
SetProductionPool ==
  { Rule("S", <<"A", "B">>), Rule("S", <<"A", "B", "c">>), Rule("S", <<"a">>),
    Rule("S", <<"S", "A">>), Rule("A", <<"a">>), Rule("A", << >>),
    Rule("A", <<"B", "a">>), Rule("B", <<"b">>), Rule("B", << >>),
    Rule("B", <<"A">>), Rule("B", <<"S">>) }

\* the Grammar objects parseGrammar returns for them
SetGrammars ==
  {parseGrammar(P, start, << >>) :
     P \in {Q \in SUBSET SetProductionPool : Cardinality(Q) \in 1..MaxSetProds},
     start \in {"S", "A", "B"}}

\* nullables(g)
CallNullables ==
  /\ callee = "none"
  /\ \E gr \in SetGrammars :
       /\ gr.grammar[kStartSymbol][1].terms[1] \in DOMAIN gr.grammar
       /\ args' = gr
       /\ ret' = nullables(gr)
  /\ callee' = "nullables"
  /\ UNCHANGED <<pgVars, obVars, jsVars, fzVars>>

\* firstSets(g)
CallFirstSets ==
  /\ callee = "none"
  /\ \E gr \in SetGrammars :
       /\ gr.grammar[kStartSymbol][1].terms[1] \in DOMAIN gr.grammar
       /\ args' = gr
       /\ ret' = firstSets(gr)
  /\ callee' = "firstSets"
  /\ UNCHANGED <<pgVars, obVars, jsVars, fzVars>>

\* followSets(g)
CallFollowSets ==
  /\ callee = "none"
  /\ \E gr \in SetGrammars :
       /\ gr.grammar[kStartSymbol][1].terms[1] \in DOMAIN gr.grammar
       /\ args' = gr
       /\ ret' = followSets(gr)
  /\ callee' = "followSets"
  /\ UNCHANGED <<pgVars, obVars, jsVars, fzVars>>

\* the initial configurating set of g and the sets one and two shifts away
ItemSetsOf(gr) ==
  LET first  == closureOf(gr, Item(kStartSymbol, gr.grammar[kStartSymbol][1].terms, 0))
      second == Range(successorsOf(gr, first))
      third  == UNION {Range(successorsOf(gr, I)) : I \in second}
  IN  {first} \cup second \cup third

\* successorsOf(g, productions)
CallSuccessorsOf ==
  /\ callee = "none"
  /\ \E gr \in SetGrammars :
       /\ gr.grammar[kStartSymbol][1].terms[1] \in DOMAIN gr.grammar
       /\ \E I \in ItemSetsOf(gr) :
            /\ args' = [g |-> gr, productions |-> I]
            /\ ret' = successorsOf(gr, I)
  /\ callee' = "successorsOf"
  /\ UNCHANGED <<pgVars, obVars, jsVars, fzVars>>

NextCalls ==
  \/ CallValidate
  \/ CallSillyRename
  \/ CallCfgForSingletons
  \/ CallParseJSON
  \/ CallParseTokens
  \/ CallNullables
  \/ CallFirstSets
  \/ CallFollowSets
  \/ CallSuccessorsOf

SpecCalls == InitCalls /\ [][NextCalls]_vars

(***************************************************************************)
(* Main.cpp: seemEquivalent, one sample at a time.  fzPc is the statement  *)
(* the loop is at, fzStr the pair the generator just returned.             *)
(***************************************************************************)
kMaxSize == 15

kTestsPerSize == 1000

\* grammars of { "@" } and { "@", "a" }: equal pairs and pairs that differ
FuzzGrammars == {flatCFG(Sigma, LangWindow(1, 1)), flatCFG(Sigma, LangWindow(1, 2))}

\* what the caller's string holds before the call
FuzzOutBefore == <<63>>

InitFz ==
  /\ fzOne \in FuzzGrammars
  /\ fzTwo \in FuzzGrammars
  /\ fzPc = "gen1"
  /\ fzI = 0
  /\ fzTrial = 0
  /\ fzStr = [first |-> FALSE, second |-> << >>]
  /\ fzOut = FuzzOutBefore
  /\ fzResult = "unknown"
  /\ IdlePG /\ IdleOb /\ IdleJs /\ IdleCalls

\* mutant of Gen2: the samples of the second grammar are never tested
Gen2Unchecked ==
  /\ fzPc = "gen2"
  /\ \E str2 \in generatorFor(fzTwo) : fzStr' = str2
  /\ fzPc' = "gen1"
  /\ IF fzTrial + 1 < kTestsPerSize
       THEN fzTrial' = fzTrial + 1 /\ fzI' = fzI
       ELSE fzTrial' = 0 /\ fzI' = fzI + 1
  /\ UNCHANGED <<fzOne, fzTwo, fzOut, fzResult, pgVars, obVars, jsVars, callVars>>

\* auto str1 = gen1(i); if (str1.first && !match2(str1.second)) ...
Gen1 ==
  /\ fzPc = "gen1"
  /\ fzI < kMaxSize
  /\ \E str1 \in generatorFor(fzOne) :
       /\ fzStr' = str1
       /\ IF str1.first /\ ~matcherFor(fzTwo, str1.second)
            THEN /\ fzOut' = str1.second
                 /\ fzResult' = "false"
                 /\ fzPc' = "returned"
            ELSE /\ fzPc' = "gen2"
                 /\ UNCHANGED <<fzOut, fzResult>>
  /\ UNCHANGED <<fzOne, fzTwo, fzI, fzTrial, pgVars, obVars, jsVars, callVars>>

\* auto str2 = gen2(i); if (str2.first && !match1(str2.second)) ...; trial++
Gen2 ==
  /\ fzPc = "gen2"
  /\ \E str2 \in generatorFor(fzTwo) :
       /\ fzStr' = str2
       /\ IF str2.first /\ ~matcherFor(fzOne, str2.second)
            THEN /\ fzOut' = str2.second
                 /\ fzResult' = "false"
                 /\ fzPc' = "returned"
                 /\ UNCHANGED <<fzI, fzTrial>>
            ELSE /\ fzPc' = "gen1"
                 /\ IF fzTrial + 1 < kTestsPerSize
                      THEN fzTrial' = fzTrial + 1 /\ fzI' = fzI
                      ELSE fzTrial' = 0 /\ fzI' = fzI + 1
                 /\ UNCHANGED <<fzOut, fzResult>>
  /\ UNCHANGED <<fzOne, fzTwo, pgVars, obVars, jsVars, callVars>>

\* return true
ReturnTrue ==
  /\ fzPc = "gen1"
  /\ fzI >= kMaxSize
  /\ fzResult' = "true"
  /\ fzPc' = "returned"
  /\ UNCHANGED <<fzOne, fzTwo, fzI, fzTrial, fzStr, fzOut, pgVars, obVars, jsVars,
                 callVars>>

NextFz ==
  \/ Gen1
  \/ Gen2
  \/ ReturnTrue

\* one call of seemEquivalent
SpecFuzz == InitFz /\ [][NextFz]_vars

(***************************************************************************)
(* Properties of the action table                                          *)
(***************************************************************************)
\* the configurating set of the state the table loop is at
curr == indexToSet[i]

\* the reduce, halt and shift loops of state i have all run
AtFinal == pc = "shift" /\ todo = << >>

\* the terminals of a production that the priority list names
ListedTerminals(gr, p) ==
  {p.items[k] : k \in {j \in 1..Len(p.items) :
                         ~isNonterminal(gr, p.items[j]) /\ p.items[j] \in Range(gr.priorities)}}

Rank(gr, x) == FindIn(gr.priorities, x)

\* X is declared earlier than every priority-listed terminal of r, or r has none
DeclaredBefore(gr, X, r) ==
  \/ ListedTerminals(gr, r) = {}
  \/ /\ X \in Range(gr.priorities)
     /\ \A t \in ListedTerminals(gr, r) : Rank(gr, X) < Rank(gr, t)

\* X is the first term, from the left, of s that is a priority-listed terminal
LeftmostListedIs(gr, s, X) ==
  \E k \in 1..Len(s.items) :
     /\ s.items[k] = X
     /\ X \in ListedTerminals(gr, s)
     /\ \A j \in 1..(k - 1) : s.items[j] \notin ListedTerminals(gr, s)

\* C1 as stated: a cell first claimed by a reduce of r, with an incomplete item whose
\* dot is before X, and X declared earlier than every priority-listed terminal of r,
\* ends as a Shift.
C1_EarlierTerminalShifts_Stated ==
  AtFinal =>
    \A X \in DOMAIN claimedBy :
       ( /\ claimedBy[X].nonterminal # kStartSymbol
         /\ DotBefore(curr, X) # {}
         /\ DeclaredBefore(g, X, claimedBy[X]) )
       => actions[X].type = "Shift"

\* C1 amended: the same, for a shift item whose production has X as its leftmost
\* priority-listed terminal (or a reduce production without priority-listed terminal):
\* then the final action of the cell is the Shift.
C1_EarlierTerminalShifts ==
  AtFinal =>
    \A X \in DOMAIN claimedBy :
       ( /\ claimedBy[X].nonterminal # kStartSymbol
         /\ DotBefore(curr, X) # {}
         /\ DeclaredBefore(g, X, claimedBy[X])
         /\ \/ ListedTerminals(g, claimedBy[X]) = {}
            \/ \E s \in DotBefore(curr, X) : LeftmostListedIs(g, s, X) )
       => /\ actions[X].type = "Shift"
          /\ actions[X].target = setToIndex[successorsOf(g, curr)[X]]

C1_Witness ==
  /\ AtFinal
  /\ \E X \in DOMAIN claimedBy :
        /\ claimedBy[X].nonterminal # kStartSymbol
        /\ ListedTerminals(g, claimedBy[X]) # {}
        /\ DeclaredBefore(g, X, claimedBy[X])
        /\ \E s \in DotBefore(curr, X) : LeftmostListedIs(g, s, X)
        /\ actions[X].type = "Shift"

\* C2: arithmetic grammar, priorities ["*", "+"]: the state with E -> E + E . shifts
\* on "*", the state with E -> E * E . reduces E -> E * E on "+".
C2_ArithmeticTable ==
  (g = ArithGrammar /\ pc = "done") =>
    \A n \in DOMAIN indexToSet :
       /\ Item("E", <<"E", "+", "E">>, 3) \in indexToSet[n]
            => table[n + 1]["*"].type = "Shift"
       /\ Item("E", <<"E", "*", "E">>, 3) \in indexToSet[n]
            => table[n + 1]["+"] = reduceActionFor(Item("E", <<"E", "*", "E">>, 3))

C2_Witness ==
  /\ g = ArithGrammar
  /\ pc = "done"
  /\ \E n, m \in DOMAIN indexToSet :
        /\ Item("E", <<"E", "+", "E">>, 3) \in indexToSet[n]
        /\ Item("E", <<"E", "*", "E">>, 3) \in indexToSet[m]
        /\ table[n + 1]["*"].type = "Shift"
        /\ table[m + 1]["+"].type = "ReduceN"

\* C3: a cell claimed by a reduce or halt item owner ends as a Shift exactly when some
\* incomplete item s with the dot before X has priorityOf(owner) >= priorityOf(s)
\* (ties shift, a strictly better owner keeps its action); an unclaimed cell with an
\* incomplete item before X takes the shift; every Shift goes to the successor on X.
C3_ShiftIffOwnerNotBetter ==
  AtFinal =>
    /\ \A X \in DOMAIN claimedBy :
          /\ actions[X].type = "Shift"
               <=> \E s \in DotBefore(curr, X) :
                      priorityOf(g, claimedBy[X]) >= priorityOf(g, s)
          /\ actions[X].type # "Shift"
               => actions[X] = IF claimedBy[X].nonterminal = kStartSymbol THEN HaltAction
                                ELSE reduceActionFor(claimedBy[X])
    /\ \A X \in DOMAIN successorsOf(g, curr) :
          X \notin DOMAIN claimedBy => X \in DOMAIN actions /\ actions[X].type = "Shift"
    /\ \A X \in DOMAIN actions :
          actions[X].type = "Shift"
            => actions[X] = ShiftAction(setToIndex[successorsOf(g, curr)[X]])

\* a tie in priority that went to the shift, in a state that also kept a reduce
C3_Witness ==
  /\ AtFinal
  /\ \E X \in DOMAIN claimedBy :
        /\ actions[X].type = "Shift"
        /\ \E s \in DotBefore(curr, X) :
              priorityOf(g, claimedBy[X]) = priorityOf(g, s)
  /\ \E Y \in DOMAIN claimedBy :
        /\ DotBefore(curr, Y) # {}
        /\ actions[Y].type = "ReduceN"

\* C4 as stated: for S -> a S | a, in the state with S -> a . a reduce claims the
\* cell for a before the shift does, and the cell ends as the Shift.
C4_ConflictOnA_Stated ==
  (g = ConflictGrammar /\ pc = "shift" /\ Item("S", <<"a">>, 1) \in curr) =>
    /\ "a" \in DOMAIN claimedBy
    /\ todo = << >> => actions["a"].type = "Shift"

\* C4 amended: for S -> a S | a, in the state with S -> a . the reduce claims only
\* the cell for SCAN_EOF, the cell for a is claimed by the shift alone (no conflict,
\* no warning), and the cell for a ends as the Shift.
C4_NoConflictOnA ==
  (g = ConflictGrammar /\ pc = "shift" /\ Item("S", <<"a">>, 1) \in curr) =>
    /\ DOMAIN claimedBy = {SCAN_EOF}
    /\ claimedBy[SCAN_EOF] = Item("S", <<"a">>, 1)
    /\ cerr = << >>
    /\ todo = << >> =>
         /\ actions["a"] = ShiftAction(setToIndex[successorsOf(g, curr)["a"]])
         /\ actions[SCAN_EOF] = reduceActionFor(Item("S", <<"a">>, 1))

C4_Witness ==
  /\ g = ConflictGrammar
  /\ AtFinal
  /\ Item("S", <<"a">>, 1) \in curr
  /\ actions["a"].type = "Shift"

\* the first claimant of the cell for X among the reduce items, else the halt items
FirstClaimant(X) ==
  LET reds == {r \in reductionsIn(curr) : X \in follow[r.nonterminal]}
      hlts == {r \in haltsIn(curr) : X \in follow[r.nonterminal]}
      from == IF reds # {} THEN reds ELSE hlts
  IN  CHOOSE r \in from : \A q \in from \ {r} : ProdLess(r, q)

\* a reduce or halt claim is about to be made on a cell that is already claimed
ReduceReduceConflict ==
  /\ pc \in {"reduce", "halt"}
  /\ todo # << >>
  /\ ~Head(todo).throws
  /\ Head(todo).symbol \in DOMAIN actions

\* C5: per state the reduce claims come first, then the halt claims; a claim on a
\* cell that is already claimed leaves the action and the owner as they are and
\* emits a reduce/reduce warning, so the first writer keeps the cell.
C5_FirstWriterWins ==
  /\ [](pc = "reduce" =>
          \A k \in DOMAIN todo :
             /\ todo[k].r \in reductionsIn(curr)
             /\ todo[k].symbol \in follow[todo[k].r.nonterminal])
  /\ [](pc = "halt" =>
          \A k \in DOMAIN todo :
             /\ todo[k].r \in haltsIn(curr)
             /\ todo[k].symbol \in follow[todo[k].r.nonterminal])
  /\ [](pc = "shift" =>
          /\ DOMAIN claimedBy =
               UNION {follow[r.nonterminal] : r \in reductionsIn(curr) \cup haltsIn(curr)}
          /\ \A X \in DOMAIN claimedBy : claimedBy[X] = FirstClaimant(X))
  /\ [][ /\ pc = "halt" => pc' # "reduce"
         /\ ReduceReduceConflict =>
              /\ actions' = actions
              /\ owners' = owners
              /\ cerr' = Append(cerr, [state |-> i,
                                       current |-> owners[Head(todo).symbol],
                                       other |-> Head(todo).r]) ]_vars

\* a halt claim lost its cell to an earlier reduce, which still owns it
C5_Witness ==
  /\ pc = "halt"
  /\ cerr # << >>
  /\ cerr[Len(cerr)].state = i
  /\ cerr[Len(cerr)].other.nonterminal = kStartSymbol
  /\ \E X \in DOMAIN owners :
        /\ owners[X] = cerr[Len(cerr)].current
        /\ actions[X] = reduceActionFor(owners[X])

\* a shift is about to claim a cell that a reduce or halt claimed
ShiftReduceConflict ==
  /\ pc = "shift"
  /\ todo # << >>
  /\ Head(todo).symbol \in DOMAIN actions
  /\ actions[Head(todo).symbol].type # "Shift"

\* C6 as stated: every conflict, reduce/reduce or shift/reduce, emits a warning for
\* the cell and table construction goes on.
C6_EveryConflictWarns_Stated ==
  [][ (ReduceReduceConflict \/ ShiftReduceConflict) =>
         (Len(cerr') = Len(cerr) + 1 /\ pc' = pc) ]_vars

\* C6 amended: every reduce/reduce conflict emits a warning; a shift/reduce conflict
\* is resolved by priority without a warning; no conflict stops the generation, which
\* goes on until every state has its row.
C6_ConflictsNeverStop ==
  /\ [][ /\ ReduceReduceConflict => (Len(cerr') = Len(cerr) + 1 /\ pc' = pc)
         /\ ShiftReduceConflict => (cerr' = cerr /\ pc' = pc) ]_vars
  /\ [](pc # "threw")
  /\ [](pc = "done" => Len(table) = Cardinality(DOMAIN indexToSet))
  /\ [](pc = "state" => i <= Cardinality(DOMAIN indexToSet) /\ Len(table) = i)

\* a shift/reduce conflict was resolved, and the state has no warning
C6_Witness ==
  /\ AtFinal
  /\ \E X \in DOMAIN claimedBy : DotBefore(curr, X) # {}
  /\ \A k \in DOMAIN cerr : cerr[k].state # i


(***************************************************************************)
(* Properties of the obfuscator                                            *)
(***************************************************************************)
\* the sampled strings, as words
X == {utf8Reader(str) : str \in singletons}

\* C7: the DFA built by obfuscate accepts exactly the words that were not
\* sampled, (L(G) intersect L(D)) union X is L(G), and when intersect, unionOf
\* and toCNF returned grammars of the languages their contracts name, the
\* grammar obfuscate returns generates exactly L(G).
C7_ObfuscateKeepsLanguage ==
  /\ dfa # << >> =>
       /\ \A w \in Universe \cup {<< >>} : accepts(dfa, w) <=> w \notin X
       /\ {w \in LangOf(refCfg) : accepts(dfa, w)} \cup X = LangOf(refCfg)
  /\ (obs # << >> /\ contractsMet) => LangOf(obs) = LangOf(refCfg)

\* obfuscate returned, with a sampled string that needed escaping and a
\* language larger than the sample
C7_Witness ==
  /\ obs # << >> /\ contractsMet
  /\ Cardinality(LangOf(refCfg)) > kNumStrings
  /\ \E str \in singletons : \E k \in DOMAIN str : isSpecialChar(str[k])
  /\ \E w \in LangOf(refCfg) : accepts(dfa, w)

\* C8 (as stated): when the grammar has fewer than ten strings to sample,
\* obfuscate still leaves its sampling loop (by giving up with an error).
C8_SamplingStops_Stated ==
  Cardinality(LangOf(refCfg)) < kNumStrings => <>(opc # "sample")

StepOrder ==
  <<"sample", "regex", "dfa", "intersect", "validateIntersect", "union",
    "validateUnion", "toCNF", "validateCNF", "sillyRename", "validateRename",
    "seemEquivalent", "write", "done">>

\* the grammar the validate at hand is looking at fails it
ValidateFails ==
  \/ opc = "validateIntersect" /\ ~validate(allButSingleton)
  \/ opc \in {"validateUnion", "validateCNF", "validateRename"} /\ ~validate(cfg)

\* C9: generateObfuscated goes through its steps in one order: validate on
\* the result of intersect, of unionOf, of toCNF and of sillyRename, then
\* seemEquivalent, then the output file.  A failed validate or a witnessed
\* mismatch aborts the run, an aborted run does nothing more, and the file is
\* written only by the last step, after seemEquivalent returned true.
C9_OutputWrittenLast ==
  /\ [][/\ opc # "aborted"
        /\ opc' # opc =>
              \/ \E k \in 1..(Len(StepOrder) - 1) :
                    opc = StepOrder[k] /\ opc' = StepOrder[k + 1]
              \/ /\ opc' = "aborted"
                 /\ opc \in {"validateIntersect", "validateUnion", "validateCNF",
                             "validateRename", "seemEquivalent"}
        /\ ValidateFails => opc' = "aborted"
        /\ (opc = "seemEquivalent" /\ equivalent' = "false") => opc' = "aborted"
        /\ output' # output =>
              opc = "write" /\ opc' = "done" /\ equivalent = "true"]_vars
  /\ [](opc = "aborted" => output = << >>)

\* the file has been written, for a grammar larger than its sample
C9_Witness ==
  /\ opc = "done"
  /\ output # << >> /\ output.cfg = toJSON(obs)
  /\ equivalent = "true"
  /\ Cardinality(LangOf(refCfg)) > kNumStrings


(***************************************************************************)
(* Properties of the JSON codec                                            *)
(***************************************************************************)
\* the four invariants the data model lists for a CFG
DataModelInvariants(c) ==
  /\ c.startSymbol \in c.nonterminals
  /\ \A k \in DOMAIN c.productions :
       \A j \in DOMAIN c.productions[k].replacement :
          LET s == c.productions[k].replacement[j]
          IN  IF s.type = "TERMINAL" THEN s.ch \in c.alphabet
                                     ELSE s.ch \in c.nonterminals
  /\ \A n \in c.nonterminals :
       \E k \in DOMAIN c.productions : c.productions[k].nonterminal = n

\* every production's left-hand side is a declared nonterminal
LhsDeclared(c) ==
  \A k \in DOMAIN c.productions : c.productions[k].nonterminal \in c.nonterminals

\* the decoder returned a grammar equal to the one encoded
RoundTrips ==
  /\ ~parsed.error
  /\ parsed.cfg.startSymbol = jcfg.startSymbol
  /\ parsed.cfg.productions = jcfg.productions
  /\ parsed.cfg.alphabet = jcfg.alphabet
  /\ parsed.cfg.nonterminals = jcfg.nonterminals

RhsChars(c, ty) ==
  UNION {{c.productions[k].replacement[j].ch :
            j \in {j \in DOMAIN c.productions[k].replacement :
                     c.productions[k].replacement[j].type = ty}} :
         k \in DOMAIN c.productions}

\* the nonterminals on the left-hand sides of c
LhsChars(c) == {c.productions[k].nonterminal : k \in DOMAIN c.productions}

\* C11: validate returns exactly when every terminal of every production is
\* in the alphabet, every nonterminal on a right-hand side is in the declared
\* nonterminal set, and the set of left-hand sides equals the declared set;
\* otherwise it aborts; the CFG it was handed is unchanged either way.
C11_ValidateAcceptsExactly ==
  callee = "validate" =>
    /\ ret.returned <=>
         /\ RhsChars(args, "TERMINAL") \subseteq args.alphabet
         /\ RhsChars(args, "NONTERMINAL") \subseteq args.nonterminals
         /\ LhsChars(args) = args.nonterminals
    /\ ret.cfg = args

\* validate returned on a grammar of three productions over two nonterminals
C11_Witness ==
  /\ callee = "validate" /\ ret.returned
  /\ Len(args.productions) = 3 /\ args.nonterminals = JsonNonterminals
  /\ RhsChars(args, "NONTERMINAL") # {} /\ RhsChars(args, "TERMINAL") # {}

\* C12 (as stated): every CFG the toolkit constructs and accepts has its
\* start symbol in its nonterminal set: the CFG parseCFG returns from tokens,
\* the CFG parseCFG returns from JSON, the results of cfgForSingletons and
\* sillyRename, and every CFG on which validate returns.
C12_StartDeclared_Stated ==
  /\ (callee = "parseCFG(tokens)" /\ ret.error = "") =>
        ret.cfg.startSymbol \in ret.cfg.nonterminals
  /\ (callee = "parseCFG(JSON)" /\ ~ret.error) =>
        ret.cfg.startSymbol \in ret.cfg.nonterminals
  /\ callee \in {"cfgForSingletons", "sillyRename"} =>
        ret.startSymbol \in ret.nonterminals
  /\ (callee = "validate" /\ ret.returned) =>
        ret.cfg.startSymbol \in ret.cfg.nonterminals

\* the pairs (old name, new name) at the places where G has a nonterminal:
\* left-hand sides, right-hand sides and the start symbol
RenamedPairs(G, H) ==
  {<<G.productions[k].nonterminal, H.productions[k].nonterminal>> :
     k \in DOMAIN G.productions}
  \cup UNION {{<<G.productions[k].replacement[j].ch, H.productions[k].replacement[j].ch>> :
                 j \in {j \in DOMAIN G.productions[k].replacement :
                          G.productions[k].replacement[j].type = "NONTERMINAL"}} :
              k \in DOMAIN G.productions}
  \cup {<<G.startSymbol, H.startSymbol>>}

\* C13: sillyRename(G) is G with its nonterminals renamed by an injective
\* map: the productions keep their positions, lengths and terminals, every
\* occurrence of a nonterminal (left-hand side, right-hand side, start
\* symbol) is replaced by the image of that nonterminal under one map, the
\* alphabet is unchanged, and so the directly listed language is the same.
C13_SillyRenameIsRenaming ==
  callee = "sillyRename" =>
    LET G     == args
        H     == ret
        pairs == RenamedPairs(G, H)
    IN  /\ Len(H.productions) = Len(G.productions)
        /\ \A k \in DOMAIN G.productions :
             /\ Len(H.productions[k].replacement) = Len(G.productions[k].replacement)
             /\ \A j \in DOMAIN G.productions[k].replacement :
                  LET s == G.productions[k].replacement[j]
                      t == H.productions[k].replacement[j]
                  IN  /\ t.type = s.type
                      /\ s.type = "TERMINAL" => t.ch = s.ch
        /\ \A p, q \in pairs : p[1] = q[1] <=> p[2] = q[2]
        /\ H.nonterminals = {p[2] : p \in pairs}
        /\ (validate(G) /\ G.startSymbol \in G.nonterminals) =>
              Cardinality(H.nonterminals) = Cardinality(G.nonterminals)
        /\ H.alphabet = G.alphabet
        /\ LangOf(H) = LangOf(G)

\* a grammar of three productions where both nonterminals occur, one of them
\* twice, and the start symbol was not the first to be named
C13_Witness ==
  /\ callee = "sillyRename"
  /\ Len(args.productions) = 3
  /\ Cardinality(RenamedPairs(args, ret)) = 2
  /\ ret.startSymbol # kBaseUnicode
  /\ \E k \in DOMAIN args.productions :
       args.productions[k].replacement
         = <<terminal(97), nonterminal(args.productions[k].nonterminal)>>
  /\ ret.productions # args.productions

(***************************************************************************)
(* Nullable, FIRST and FOLLOW as least solutions of their rules, stated    *)
(* without the loops of the code.                                          *)
(***************************************************************************)
\* Q holds every nonterminal that has a production with all its terms in Q
NullableClosed(gr, Q) ==
  \A n \in DOMAIN gr.grammar :
     (\E r \in Range(gr.grammar[n]) : Range(r.terms) \subseteq Q) => n \in Q

\* the least such set: what every closed set of nonterminals contains
LeastNullable(gr) ==
  {n \in DOMAIN gr.grammar :
     \A Q \in SUBSET DOMAIN gr.grammar : NullableClosed(gr, Q) => n \in Q}

\* the positions of terms that only nullable nonterminals stand before
OpenPositions(N, terms) ==
  {k \in DOMAIN terms : \A j \in 1..(k - 1) : terms[j] \in N}

\* what the FIRST rules force into FIRST(n), given the family F
FirstForced(gr, N, F, n) ==
  UNION {UNION {IF isNonterminal(gr, r.terms[k]) THEN F[r.terms[k]] ELSE {r.terms[k]} :
                  k \in OpenPositions(N, r.terms)} :
         r \in Range(gr.grammar[n])}

RECURSIVE FirstLeast(_, _, _)
FirstLeast(gr, N, F) ==
  LET forced == [n \in DOMAIN gr.grammar |-> F[n] \cup FirstForced(gr, N, F, n)]
  IN  IF forced = F THEN F ELSE FirstLeast(gr, N, forced)

\* the least family closed under the FIRST rules
LeastFirst(gr) == FirstLeast(gr, LeastNullable(gr), [n \in DOMAIN gr.grammar |-> {}])

\* C14: in the family firstSets returns, for every production N -> alpha and
\* every position k such that all terms before k are nullable nonterminals,
\* FIRST(alpha[k]) is a subset of FIRST(N) when alpha[k] is a nonterminal and
\* alpha[k] is in FIRST(N) when it is a terminal; and the family is the least
\* one with that property.
C14_FirstSetsLeast ==
  callee = "firstSets" =>
    LET N == LeastNullable(args)
    IN  /\ \A n \in DOMAIN args.grammar :
             \A r \in Range(args.grammar[n]) :
                \A k \in OpenPositions(N, r.terms) :
                   IF isNonterminal(args, r.terms[k])
                     THEN Get(ret, r.terms[k]) \subseteq Get(ret, n)
                     ELSE r.terms[k] \in Get(ret, n)
        /\ \A n \in DOMAIN args.grammar : Get(ret, n) = LeastFirst(args)[n]
        /\ DOMAIN ret \subseteq DOMAIN args.grammar

\* S -> A B c with A and B nullable: the terminal behind two nullable
\* nonterminals and the FIRST set of the second one both reached FIRST(S)
C14_Witness ==
  /\ callee = "firstSets"
  /\ "S" \in DOMAIN args.grammar
  /\ \E r \in Range(args.grammar["S"]) : r.terms = <<"A", "B", "c">>
  /\ {"A", "B"} \subseteq LeastNullable(args)
  /\ "c" \in Get(ret, "S")
  /\ "b" \in Get(ret, "B") /\ "b" \in Get(ret, "S")

\* R holds exactly the nonterminals with a production whose terms are all in R
NullableFixed(gr, R) ==
  \A n \in DOMAIN gr.grammar :
     n \in R <=> \E r \in Range(gr.grammar[n]) : Range(r.terms) \subseteq R

\* the nonterminals with a derivation tree for the empty string of height <= h
RECURSIVE DerivesEmptyWithin(_, _)
DerivesEmptyWithin(gr, h) ==
  IF h = 0 THEN {}
  ELSE LET lower == DerivesEmptyWithin(gr, h - 1)
       IN  {n \in DOMAIN gr.grammar :
              \E r \in Range(gr.grammar[n]) : Range(r.terms) \subseteq lower}

\* C15: nullables(g) is the least set R such that N is in R iff some
\* production of N has every term in R; it holds no terminal and no
\* nonterminal that cannot derive the empty string.
C15_NullablesLeast ==
  callee = "nullables" =>
    /\ ret \subseteq DOMAIN args.grammar
    /\ NullableFixed(args, ret)
    /\ \A Q \in SUBSET DOMAIN args.grammar : NullableFixed(args, Q) => ret \subseteq Q
    /\ ret = LeastNullable(args)
    /\ ret = DerivesEmptyWithin(args, Cardinality(DOMAIN args.grammar))

\* S and B are nullable without an empty production of their own (S -> A B,
\* B -> A, A -> epsilon)
C15_Witness ==
  /\ callee = "nullables"
  /\ {"S", "B", "A"} \subseteq ret
  /\ \A n \in {"S", "B"} : \A r \in Range(args.grammar[n]) : r.terms # << >>
  /\ \E r \in Range(args.grammar["S"]) : r.terms = <<"A", "B">>

(***************************************************************************)
(* Properties of the token-stream parser                                   *)
(***************************************************************************)
\* the places of a token stream where a variable declaration starts
DeclHeads(input) ==
  {p \in 1..(Len(input) - 1) :
     input[p].type = "NONTERMINAL" /\ input[p + 1].type = "ARROW"}

\* the productions of a well-formed stream in source order, read in one pass:
\* a declaration head or a bar closes the production being read
RECURSIVE ProductionsInOrder(_, _, _, _, _)
ProductionsInOrder(input, p, lhs, symbols, out) ==
  IF p > Len(input) THEN out
  ELSE LET t == input[p]
       IN  IF p \in DeclHeads(input)
             THEN ProductionsInOrder(input, p + 2, t.data, << >>,
                    IF p = 1 THEN out ELSE Append(out, Production(lhs, symbols)))
           ELSE IF t.type = "BAR"
             THEN ProductionsInOrder(input, p + 1, lhs, << >>,
                                     Append(out, Production(lhs, symbols)))
           ELSE IF t.type = "SCAN_EOF" THEN Append(out, Production(lhs, symbols))
           ELSE IF t.type = "EPSILON"
             THEN ProductionsInOrder(input, p + 1, lhs, symbols, out)
           ELSE ProductionsInOrder(input, p + 1, lhs,
                  Append(symbols, IF t.type = "TERMINAL" THEN terminal(t.data)
                                                         ELSE nonterminal(t.data)),
                  out)

\* C16: when parseCFG succeeds on a token stream, the start symbol is the
\* left-hand side of the first variable declaration, the nonterminal set is
\* exactly the set of left-hand sides of the declarations read (a nonterminal
\* that occurs only on a right-hand side is not added), and the productions
\* are listed in source order.
C16_TokenParserResult ==
  (callee = "parseCFG(tokens)" /\ ret.error = "") =>
    LET heads == DeclHeads(args.input)
    IN  /\ 1 \in heads
        /\ ret.cfg.startSymbol = args.input[1].data
        /\ ret.cfg.nonterminals = {args.input[p].data : p \in heads}
        /\ ret.cfg.productions = ProductionsInOrder(args.input, 1, 0, << >>, << >>)
        /\ ret.cfg.alphabet = args.alphabet

\* S -> a, then A -> (empty string): two declarations, S is the start symbol
C16_Witness ==
  /\ callee = "parseCFG(tokens)" /\ ret.error = ""
  /\ Cardinality(DeclHeads(args.input)) = 2
  /\ ret.cfg.startSymbol = 83 /\ ret.cfg.nonterminals = {65, 83}
  /\ ret.cfg.productions = <<Production(83, <<terminal(97)>>), Production(65, << >>)>>

\* C17 (as stated): parsing a token stream that holds no variable
\* declaration (only the end-of-input token) fails with NoProductions,
\* "No productions found.".
C17_NoProductions_Stated ==
  (callee = "parseCFG(tokens)" /\ args.input = <<Token("SCAN_EOF", 0)>>) =>
     ret.error = "No productions found."

(***************************************************************************)
(* Properties of seemEquivalent                                            *)
(***************************************************************************)
\* the trial after trial (size, trial) in the walk over sizes and trials
NextTrial(size, trial) ==
  IF trial = kTestsPerSize - 1 THEN <<size + 1, 0>> ELSE <<size, trial + 1>>

\* C18: seemEquivalent(A, B, out) walks the sizes 0..14 with 1000 trials per
\* size and samples A before B in each trial; a sample whose ok flag is false
\* is skipped; it returns false iff some sampled string is rejected by the
\* other grammar's matcher, out is then the first such string and nothing is
\* sampled after it; when it returns true, out is unchanged.
C18_FuzzWalk ==
  /\ [][/\ fzPc \in {"gen1", "gen2"}
        /\ (fzPc = "gen1" /\ fzI < kMaxSize) =>
              /\ fzStr' \in generatorFor(fzOne)
              /\ IF fzStr'.first /\ utf8Reader(fzStr'.second) \notin LangOf(fzTwo)
                   THEN fzPc' = "returned" /\ fzResult' = "false"
                        /\ fzOut' = fzStr'.second
                   ELSE fzPc' = "gen2" /\ fzResult' = "unknown" /\ fzOut' = fzOut
              /\ <<fzI', fzTrial'>> = <<fzI, fzTrial>>
        /\ fzPc = "gen2" =>
              /\ fzStr' \in generatorFor(fzTwo)
              /\ IF fzStr'.first /\ utf8Reader(fzStr'.second) \notin LangOf(fzOne)
                   THEN fzPc' = "returned" /\ fzResult' = "false"
                        /\ fzOut' = fzStr'.second
                   ELSE /\ fzPc' = "gen1" /\ fzResult' = "unknown" /\ fzOut' = fzOut
                        /\ <<fzI', fzTrial'>> = NextTrial(fzI, fzTrial)
        /\ (fzPc = "gen1" /\ fzI >= kMaxSize) =>
              fzPc' = "returned" /\ fzResult' = "true" /\ fzOut' = fzOut
       ]_vars
  /\ [](fzPc # "idle" =>
          /\ fzI \in 0..kMaxSize /\ fzTrial \in 0..(kTestsPerSize - 1)
          /\ fzPc = "gen2" => fzI < kMaxSize
          /\ fzResult = "true" =>
                fzPc = "returned" /\ fzOut = FuzzOutBefore
                /\ <<fzI, fzTrial>> = <<kMaxSize, 0>>
          /\ fzResult = "false" =>
                fzPc = "returned" /\ fzStr.first /\ fzOut = fzStr.second
                /\ fzI < kMaxSize
          /\ fzResult = "unknown" => fzPc # "returned" /\ fzOut = FuzzOutBefore)

\* all 15 * 1000 trials ran on two grammars of the same two-string language,
\* the last sample was a string, and the call returned true
C18_Witness ==
  /\ fzPc = "returned" /\ fzResult = "true"
  /\ <<fzI, fzTrial>> = <<kMaxSize, 0>>
  /\ Cardinality(LangOf(fzOne)) = 2 /\ fzOne = fzTwo
  /\ fzStr.first /\ fzOut = FuzzOutBefore

\* the positions behind position p of terms that the scan of followSets
\* reaches: only nullable nonterminals stand between p and them
ScanPositions(N, terms, p) ==
  {j \in (p + 1)..Len(terms) : \A m \in (p + 1)..(j - 1) : terms[m] \in N}

\* the scan behind position p runs off the end of terms
ScanReachesEnd(N, terms, p) == \A m \in (p + 1)..Len(terms) : terms[m] \in N

\* what the FOLLOW rules force into FOLLOW(A), given FIRST and the family F
FollowForced(gr, N, firsts, F, A) ==
  (IF A = kStartSymbol THEN {SCAN_EOF} ELSE {})
  \cup UNION {UNION {UNION {
         UNION {IF isNonterminal(gr, r.terms[j]) THEN firsts[r.terms[j]]
                                                 ELSE {r.terms[j]} :
                  j \in ScanPositions(N, r.terms, p)}
         \cup (IF ScanReachesEnd(N, r.terms, p) THEN F[n] ELSE {}) :
           p \in {q \in DOMAIN r.terms : r.terms[q] = A}} :
         r \in Range(gr.grammar[n])} :
         n \in DOMAIN gr.grammar}

RECURSIVE FollowLeast(_, _, _, _)
FollowLeast(gr, N, firsts, F) ==
  LET forced == [A \in DOMAIN gr.grammar |-> F[A] \cup FollowForced(gr, N, firsts, F, A)]
  IN  IF forced = F THEN F ELSE FollowLeast(gr, N, firsts, forced)

\* the least family closed under the FOLLOW rules
LeastFollow(gr) ==
  FollowLeast(gr, LeastNullable(gr), LeastFirst(gr), [A \in DOMAIN gr.grammar |-> {}])

\* C19: followSets returns the least family such that SCAN_EOF is in
\* FOLLOW(_parserInternalStart) and, for every production S -> terms and every
\* position i holding a nonterminal A, scanning j = i+1.. : a terminal at j is
\* in FOLLOW(A) and ends the scan; a nonterminal B at j puts FIRST(B) into
\* FOLLOW(A) and ends the scan iff B is not nullable; when the scan runs off
\* the end, FOLLOW(S) is a subset of FOLLOW(A).
C19_FollowSetsLeast ==
  callee = "followSets" =>
    LET N      == LeastNullable(args)
        firsts == LeastFirst(args)
    IN  /\ SCAN_EOF \in Get(ret, kStartSymbol)
        /\ \A n \in DOMAIN args.grammar :
             \A r \in Range(args.grammar[n]) :
                \A p \in {q \in DOMAIN r.terms : isNonterminal(args, r.terms[q])} :
                   /\ \A j \in ScanPositions(N, r.terms, p) :
                         IF isNonterminal(args, r.terms[j])
                           THEN firsts[r.terms[j]] \subseteq Get(ret, r.terms[p])
                           ELSE r.terms[j] \in Get(ret, r.terms[p])
                   /\ ScanReachesEnd(N, r.terms, p) =>
                         Get(ret, n) \subseteq Get(ret, r.terms[p])
        /\ \A A \in DOMAIN args.grammar : Get(ret, A) = LeastFollow(args)[A]
        /\ DOMAIN ret \subseteq DOMAIN args.grammar

\* S -> A B c and S -> A B with B nullable and A not: the terminal behind the
\* nullable B and the end-of-input marker of FOLLOW(S) both reached FOLLOW(A)
C19_Witness ==
  /\ callee = "followSets"
  /\ "S" \in DOMAIN args.grammar
  /\ {r.terms : r \in Range(args.grammar["S"])} = {<<"A", "B", "c">>, <<"A", "B">>}
  /\ "B" \in LeastNullable(args) /\ "A" \notin LeastNullable(args)
  /\ {"c", SCAN_EOF} \subseteq Get(ret, "A")
  /\ "a" \notin Get(ret, "A")

(***************************************************************************)
(* Properties of successorsOf                                              *)
(***************************************************************************)
\* the symbol right after the dot of an item that has one
AfterDot(item) == item.items[item.index + 1]

\* the items of I with the dot before sym, the dot moved over sym
Advanced(I, sym) ==
  {Item(t.nonterminal, t.items, t.index + 1) :
     t \in {q \in I : q.index < Len(q.items) /\ AfterDot(q) = sym}}

\* the least set that holds S and, for every nonterminal right after a dot
\* in it, the items (A, rhs, 0) of all productions of A
RECURSIVE LeastClosure(_, _)
LeastClosure(gr, S) ==
  LET wanted == {AfterDot(q) : q \in {t \in S : t.index < Len(t.items)}}
                  \cap DOMAIN gr.grammar
      more   == UNION {{Item(A, r.terms, 0) : r \in Range(gr.grammar[A])} : A \in wanted}
  IN  IF more \subseteq S THEN S ELSE LeastClosure(gr, S \cup more)

\* C20: successorsOf(g, I) has a key for exactly the symbols that stand right
\* after the dot of some item of I; the value for X is the closure of the
\* items of I with the dot before X, advanced over X: every advanced item,
\* every (A, rhs, 0) for each production of each nonterminal A right after a
\* dot in the set, and nothing else; every dot index is between 0 and the
\* length of the right-hand side.
C20_SuccessorsAreClosures ==
  callee = "successorsOf" =>
    LET I == args.productions
    IN  /\ DOMAIN ret = {AfterDot(q) : q \in {t \in I : t.index < Len(t.items)}}
        /\ \A sym \in DOMAIN ret :
             /\ ret[sym] = LeastClosure(args.g, Advanced(I, sym))
             /\ Advanced(I, sym) # {}
             /\ \A q \in ret[sym] : q.index \in 0..Len(q.items)

\* two items of the set moved over A together (S -> A . B and S -> A . B c),
\* the closure added the items of B, and another symbol has a successor too
C20_Witness ==
  /\ callee = "successorsOf"
  /\ Cardinality(DOMAIN ret) >= 2
  /\ "A" \in DOMAIN ret
  /\ {Item("S", <<"A", "B">>, 1), Item("S", <<"A", "B", "c">>, 1)} \subseteq ret["A"]
  /\ \E q \in ret["A"] : q.nonterminal = "B" /\ q.index = 0

(***************************************************************************)
(* Properties of the canonical collection                                  *)
(***************************************************************************)
\* the number of configurating sets indexed so far
NumSets == Cardinality(DOMAIN setToIndex)

\* the closure of the item (_parserInternalStart, [start symbol], 0)
StartSet == closureOf(g, Item(kStartSymbol, g.grammar[kStartSymbol][1].terms, 0))

\* C21: generateConfiguratingSets gives index 0 to the closure of the item
\* (_parserInternalStart, [start symbol], 0) and gives each further distinct
\* configurating set the next unused index when it is first popped from the
\* worklist; at every step and at the end the indices are exactly 0..n-1, no
\* set has two indices, no two sets share an index, and setToIndex and
\* indexToSet are inverse maps of each other.
C21_IndicesInInsertionOrder ==
  /\ [](pc # "idle" =>
          /\ DOMAIN indexToSet = 0..(NumSets - 1)
          /\ \A s \in DOMAIN setToIndex :
                setToIndex[s] \in DOMAIN indexToSet /\ indexToSet[setToIndex[s]] = s
          /\ \A k \in DOMAIN indexToSet :
                indexToSet[k] \in DOMAIN setToIndex /\ setToIndex[indexToSet[k]] = k
          /\ NumSets > 0 => indexToSet[0] = StartSet)
  /\ [][IF pc = "configSets" /\ worklist # << >>
           /\ worklist[Len(worklist)] \notin DOMAIN setToIndex
          THEN /\ DOMAIN setToIndex' = DOMAIN setToIndex \cup {worklist[Len(worklist)]}
               /\ setToIndex'[worklist[Len(worklist)]] = NumSets
               /\ \A s \in DOMAIN setToIndex : setToIndex'[s] = setToIndex[s]
          ELSE setToIndex' = setToIndex /\ indexToSet' = indexToSet]_vars

\* at least four sets are indexed and the set on top of the worklist has
\* been indexed before: it is popped without a new index
C21_Witness ==
  /\ pc = "configSets" /\ NumSets >= 4
  /\ worklist # << >> /\ worklist[Len(worklist)] \in DOMAIN setToIndex
  /\ setToIndex[worklist[Len(worklist)]] < NumSets - 1

(***************************************************************************)
(* Properties of the alternatives of the token-stream parser               *)
(***************************************************************************)
\* the places where an alternative opens: the arrow of a declaration, a bar
AltStarts(input) ==
  {p \in 1..Len(input) :
     \/ input[p].type = "BAR"
     \/ input[p].type = "ARROW" /\ p - 1 \in DeclHeads(input)}

\* the place where the alternative opened at p ends: the next bar, the next
\* declaration head or the end-of-input token
AltEnd(input, p) ==
  LET stops == {q \in (p + 1)..Len(input) :
                  \/ input[q].type \in {"BAR", "SCAN_EOF"}
                  \/ q \in DeclHeads(input)}
  IN  CHOOSE q \in stops : \A r \in stops : q <= r

\* the tokens of the alternative opened at p
AltBody(input, p) == SubSeq(input, p + 1, AltEnd(input, p) - 1)

\* Production -> Epsilon | String, String -> empty string | Terminal String |
\* Nonterminal String, with every terminal in the alphabet
IsProduction(alt, alphabet) ==
  \/ alt = <<Token("EPSILON", 0)>>
  \/ \A n \in 1..Len(alt) :
        \/ alt[n].type = "NONTERMINAL"
        \/ alt[n].type = "TERMINAL" /\ alt[n].data \in alphabet

\* Grammar -> VariableDecl+ : the stream opens with a declaration head and
\* every alternative is a production
IsGrammar(input, alphabet) ==
  /\ 1 \in DeclHeads(input)
  /\ \A p \in AltStarts(input) : IsProduction(AltBody(input, p), alphabet)

\* the right-hand side an alternative stands for
SymbolsOf(alt) ==
  IF alt = <<Token("EPSILON", 0)>> THEN << >>
  ELSE [n \in 1..Len(alt) |->
          IF alt[n].type = "TERMINAL" THEN terminal(alt[n].data)
                                        ELSE nonterminal(alt[n].data)]

\* the place of the n-th alternative of the stream
NthAlt(input, n) ==
  CHOOSE p \in AltStarts(input) :
    Cardinality({q \in AltStarts(input) : q <= p}) = n

\* C22 (as stated): an alternative with no token at all, as in "S -> | a" or
\* "S ->" directly followed by the end of input or the next declaration, is a
\* parse error and yields no CFG.
C22_EmptyAlternativeRejected_Stated ==
  (/\ callee = "parseCFG(tokens)"
   /\ \E p \in AltStarts(args.input) : AltBody(args.input, p) = << >>)
  => ret.error # ""

\* C22: the token parser accepts a stream exactly when it opens with a
\* declaration head and every alternative is a single EPSILON or a sequence of
\* zero or more terminals of the alphabet and nonterminals (Production ->
\* epsilon | Symbol*): EPSILON next to another symbol of the same alternative
\* is a parse error, while an alternative with no token at all is accepted and
\* yields a production with an empty right-hand side, as EPSILON does.
C22_AlternativesAccepted ==
  callee = "parseCFG(tokens)" =>
    /\ ret.error = "" <=> IsGrammar(args.input, args.alphabet)
    /\ ret.error = "" =>
         /\ Len(ret.cfg.productions) = Cardinality(AltStarts(args.input))
         /\ \A n \in 1..Len(ret.cfg.productions) :
               ret.cfg.productions[n].replacement =
                 SymbolsOf(AltBody(args.input, NthAlt(args.input, n)))

\* "S -> | a": the alternative before the bar has no token and is accepted
C22_Witness ==
  /\ callee = "parseCFG(tokens)"
  /\ args.input = <<Token("NONTERMINAL", 83), Token("ARROW", 0), Token("BAR", 0),
                    Token("TERMINAL", 97), Token("SCAN_EOF", 0)>>
  /\ ret.error = ""
  /\ ret.cfg.productions = <<Production(83, << >>), Production(83, <<terminal(97)>>)>>

\* the symbols right after a dot in a configurating set
SymbolsAfterDot(I) == {it.items[it.index + 1] : it \in shiftsIn(I)}

\* the Shift actions of a row of the table
ShiftsOfRow(row) == {row[sym] : sym \in {t \in DOMAIN row : row[t].type = "Shift"}}

\* C23: the canonical collection is closed under goto: for every indexed
\* configurating set I and every symbol right after a dot in I, the set
\* successorsOf(g, I)[symbol] is itself indexed (while the worklist runs it is
\* indexed or still waits on the worklist), so every Shift action names an
\* index in 0..n-1 and the lookup setToIndex.at(successors.at(symbol)) never
\* fails.
C23_ClosedUnderGoto ==
  pc # "idle" =>
    /\ \A I \in DOMAIN setToIndex :
          LET successors == successorsOf(g, I)
          IN  /\ DOMAIN successors = SymbolsAfterDot(I)
              /\ \A sym \in DOMAIN successors :
                    \/ successors[sym] \in DOMAIN setToIndex
                    \/ pc = "configSets" /\ successors[sym] \in Range(worklist)
    /\ pc = "shift" /\ todo # << >> =>
          /\ Head(todo).symbol \in DOMAIN successorsOf(g, indexToSet[i])
          /\ successorsOf(g, indexToSet[i])[Head(todo).symbol] \in DOMAIN setToIndex
    /\ \A a \in ShiftsOfRow(actions) \cup UNION {ShiftsOfRow(table[k]) : k \in DOMAIN table} :
          a.target \in 0..(NumSets - 1)

\* the table is complete, has four rows or more, a state shifts back to
\* itself or to an earlier state, and another one shifts to the last state
C23_Witness ==
  /\ pc = "done" /\ NumSets >= 4 /\ Len(table) = NumSets
  /\ \E k \in DOMAIN table : \E a \in ShiftsOfRow(table[k]) : a.target <= k - 1
  /\ \E k \in DOMAIN table : \E a \in ShiftsOfRow(table[k]) : a.target = NumSets - 1

\* the completed items of a configurating set: the dot is at the end
CompletedIn(I) == reductionsIn(I) \cup haltsIn(I)

\* C24: for every completed item in any configurating set, the map followSets
\* returns has an entry for the item's left-hand side, so the lookup
\* follow.at(r.nonterminal) of the reduce and halt loops never fails; this
\* holds in particular for a nonterminal that occurs only as the last term
\* of productions and for the synthetic start symbol.
C24_FollowEntries ==
  /\ pc # "threw"
  /\ pc \notin {"idle", "configSets"} =>
       /\ kStartSymbol \in DOMAIN follow
       /\ \A I \in DOMAIN setToIndex :
             \A r \in CompletedIn(I) : r.nonterminal \in DOMAIN follow
       /\ \A k \in DOMAIN todo : ~todo[k].throws

\* A occurs only as the last term of productions; the finished table
\* reduces by A -> b on the end of input, which took FOLLOW(A) from rule 2
C24_Witness ==
  /\ pc = "done"
  /\ "A" \in DOMAIN g.grammar /\ "S" \in DOMAIN g.grammar
  /\ \E r \in Range(g.grammar["S"]) : r.terms = <<"A">>
  /\ \A n \in DOMAIN g.grammar : \A r \in Range(g.grammar[n]) :
        \A k \in 1..(Len(r.terms) - 1) : r.terms[k] # "A"
  /\ follow["A"] = {SCAN_EOF}
  /\ \E k \in DOMAIN table :
        /\ SCAN_EOF \in DOMAIN table[k]
        /\ table[k][SCAN_EOF] = reduceActionFor(Item("A", <<"b">>, 1))
  /\ \E k \in DOMAIN table :
        SCAN_EOF \in DOMAIN table[k] /\ table[k][SCAN_EOF] = HaltAction

(***************************************************************************)
(* Termination of the set computations and of the worklist                 *)
(***************************************************************************)
\* every LR(0) item of a grammar
GrammarItems(gr) ==
  UNION {UNION {{Item(n, r.terms, k) : k \in 0..Len(r.terms)} : r \in Range(gr.grammar[n])} :
           n \in DOMAIN gr.grammar}

\* the names on right-hand sides that have no productions, and the end marker
TerminalsOf(gr) ==
  (UNION {UNION {Range(r.terms) : r \in Range(gr.grammar[n])} : n \in DOMAIN gr.grammar}
     \ DOMAIN gr.grammar) \cup {SCAN_EOF}

\* a map of sets as a set of pairs
Pairs(m) == UNION {{<<k, x>> : x \in m[k]} : k \in DOMAIN m}

\* every pass of nullables that changes the result strictly grows it inside
\* the set of nonterminals; fuel is the number of passes that may still change
RECURSIVE NullablePassesGrow(_, _, _)
NullablePassesGrow(gr, result, fuel) ==
  LET next == nullablesPass(gr, SortStrs(DOMAIN gr.grammar), 1, result)
  IN  IF next = result THEN TRUE
      ELSE /\ fuel > 0
           /\ result \subseteq next /\ next \subseteq DOMAIN gr.grammar
           /\ Cardinality(next) > Cardinality(result)
           /\ NullablePassesGrow(gr, next, fuel - 1)

\* every pass of firstSets that sets changed strictly grows the map inside
\* nonterminals x terminals, and a pass that does not set it adds nothing
RECURSIVE FirstPassesGrow(_, _, _, _)
FirstPassesGrow(gr, nullable, m, fuel) ==
  LET st == firstPass(gr, nullable, SortStrs(DOMAIN gr.grammar), 1,
                      [m |-> m, changed |-> FALSE])
  IN  /\ Pairs(m) \subseteq Pairs(st.m)
      /\ Pairs(st.m) \subseteq (DOMAIN gr.grammar) \X TerminalsOf(gr)
      /\ st.changed <=> Pairs(st.m) # Pairs(m)
      /\ st.changed => fuel > 0 /\ FirstPassesGrow(gr, nullable, st.m, fuel - 1)

\* the same for followSets: rule 1, then one pass over the grammar
RECURSIVE FollowPassesGrow(_, _, _, _, _)
FollowPassesGrow(gr, firsts, nullable, m, fuel) ==
  LET rule1 == AddTo([m |-> m, changed |-> FALSE], kStartSymbol, {SCAN_EOF})
      st    == followPass(gr, firsts, nullable, SortStrs(DOMAIN gr.grammar), 1, rule1)
  IN  /\ Pairs(m) \subseteq Pairs(st.m)
      /\ Pairs(st.m) \subseteq (DOMAIN gr.grammar) \X TerminalsOf(gr)
      /\ st.changed <=> Pairs(st.m) # Pairs(m)
      /\ st.changed => fuel > 0 /\ FollowPassesGrow(gr, firsts, nullable, st.m, fuel - 1)

\* closureRec with the list of the items it expanded, in the order of the calls
\* that got past the test result.count(production)
RECURSIVE closureTrace(_, _, _)
RECURSIVE closureTraceRules(_, _, _, _, _)
closureTraceRules(gr, symbol, rules, k, st) ==
  IF k > Len(rules) THEN st
  ELSE closureTraceRules(gr, symbol, rules, k + 1,
                         closureTrace(gr, Item(symbol, rules[k].terms, 0), st))

closureTrace(gr, production, st) ==
  IF production \in st.result THEN st
  ELSE LET added == [result |-> st.result \cup {production},
                     trace  |-> Append(st.trace, production)]
       IN  IF production.index = Len(production.items) THEN added
           ELSE LET symbol == production.items[production.index + 1]
                IN  IF ~isNonterminal(gr, symbol) THEN added
                    ELSE closureTraceRules(gr, symbol, gr.grammar[symbol], 1, added)

\* closureRec expands no item twice and stays inside the items of the grammar
ClosureExpandsOnce(gr, production) ==
  LET st == closureTrace(gr, production, [result |-> {}, trace |-> << >>])
  IN  /\ st.result = closureOf(gr, production)
      /\ Len(st.trace) = Cardinality(st.result)
      /\ Range(st.trace) = st.result
      /\ st.result \subseteq GrammarItems(gr)

\* C25: for every finite grammar, left-recursive, cyclic and all-nullable ones
\* included, nullables, firstSets, followSets, closureOf and
\* generateConfiguratingSets terminate: every pass that sets changed strictly
\* grows a bounded set, closureRec never expands an item twice, every turn of
\* the worklist loop indexes a new set of items of the grammar or pops a set
\* without pushing one, and the worklist empties and the table is finished.
C25_Terminates ==
  /\ [](pc = "configSets" /\ NumSets = 0 =>
          /\ NullablePassesGrow(g, {}, Cardinality(DOMAIN g.grammar))
          /\ FirstPassesGrow(g, nullables(g), EmptyMap,
                             Cardinality((DOMAIN g.grammar) \X TerminalsOf(g)))
          /\ FollowPassesGrow(g, firstSets(g), nullables(g), EmptyMap,
                              Cardinality((DOMAIN g.grammar) \X TerminalsOf(g)))
          /\ \A it \in GrammarItems(g) : ClosureExpandsOnce(g, it))
  /\ [](pc # "idle" => \A I \in DOMAIN setToIndex : I \subseteq GrammarItems(g))
  /\ [][pc = "configSets" /\ worklist # << >> =>
          \/ /\ Cardinality(DOMAIN setToIndex') = NumSets + 1
             /\ Len(worklist') < Len(worklist) + Cardinality(GrammarItems(g))
          \/ /\ setToIndex' = setToIndex
             /\ Len(worklist') = Len(worklist) - 1]_vars
  /\ <>(pc = "configSets" /\ worklist = << >>)
  /\ <>(pc = "done")

\* the table is finished for a grammar that is cyclic and left-recursive
\* (S -> S) and all-nullable (S -> A, A -> epsilon)
C25_Witness ==
  /\ pc = "done"
  /\ "A" \in DOMAIN g.grammar /\ "S" \in DOMAIN g.grammar
  /\ {r.terms : r \in Range(g.grammar["S"])} = {<<"S">>, <<"A">>}
  /\ {r.terms : r \in Range(g.grammar["A"])} = {<< >>}
  /\ nullables(g) = {"A", "S", kStartSymbol}
  /\ Len(table) = NumSets

(***************************************************************************)
(* The halting state of the generated table                                *)
(***************************************************************************)
\* the user's start symbol: the right-hand side of the synthetic start rule
UserStart == g.grammar[kStartSymbol][1].terms[1]

\* the index of the state reached from state 0 by shifting the start symbol
AcceptState == setToIndex[successorsOf(g, indexToSet[0])[UserStart]]

\* C26 (as stated): every generated action table can halt: the state reached
\* from state 0 by shifting the user's start symbol contains the item
\* _parserInternalStart -> start . and its SCAN_EOF cell holds Halt after
\* conflict resolution (no reduce or shift takes that cell).
C26_TableCanHalt_Stated ==
  pc = "done" =>
    /\ Item(kStartSymbol, <<UserStart>>, 1) \in indexToSet[AcceptState]
    /\ SCAN_EOF \in DOMAIN table[AcceptState + 1]
    /\ table[AcceptState + 1][SCAN_EOF] = HaltAction

====
